---------------------------- MODULE Spec2Model ----------------------------
(***************************************************************************)
(* Neovolt Modbus integration: the data coordinator (adaptive polling,     *)
(* sticky cache, auto-recovery) and the Modbus transport client's command  *)
(* spacing gate, as state machines.                                        *)
(*                                                                         *)
(* Time is in whole seconds for the coordinator (datetime differences) and *)
(* in milliseconds for the transport client (time.time() differences).     *)
(* Polling intervals are floats in the code; they are kept in milliseconds *)
(* with the products truncated.                                            *)
(*                                                                         *)
(* Python dicts are functions whose DOMAIN is the set of keys present.     *)
(***************************************************************************)
EXTENDS Integers, Sequences, FiniteSets, TLC

(***************************************************************************)
(* Bounds of the model.                                                    *)
(***************************************************************************)
\* Fetch cycles explored.
MaxCycles == 3
\* Calls of set_optimistic_value explored.
MaxPatches == 1
\* Decoded readings range over 0..MaxReading (0 is Python-falsy).
MaxReading == 1
\* The configured consecutive-failure threshold (CONF_CONSECUTIVE_FAILURE_THRESHOLD).
MaxConsecutiveFailures == 2

(***************************************************************************)
(* Program constants.                                                      *)
(***************************************************************************)
\* DATA_STALE_THRESHOLD = timedelta(hours=12), in seconds.
DATA_STALE_THRESHOLD == 43200
\* RECOVERY_COOLDOWN_SECONDS
RECOVERY_COOLDOWN_SECONDS == 60
\* DEFAULT_STALENESS_THRESHOLD, minutes
DEFAULT_STALENESS_THRESHOLD == 10
\* DEFAULT_MIN_POLL_INTERVAL / DEFAULT_MAX_POLL_INTERVAL / DEFAULT_POLL_INTERVAL, seconds
DEFAULT_MIN_POLL_INTERVAL == 10
DEFAULT_MAX_POLL_INTERVAL == 300
DEFAULT_POLL_INTERVAL == 30
\* Seconds in a calendar day (now.date()).
SecondsPerDay == 86400

\* Optional[...] = None for a timestamp or a date.
NoTime == -1
\* Python None stored as a snapshot value (total_house_load, house_load_estimated).
PyNone == -1000000

(***************************************************************************)
(* Python dict helpers.                                                    *)
(***************************************************************************)
EmptyDict == [k \in {} |-> 0]

\* d.get(k, default)
Get(d, k, default) == IF k \in DOMAIN d THEN d[k] ELSE default

\* d.update(e): keys of e overwrite, all other keys of d stay.
DictUpdate(d, e) ==
    [k \in (DOMAIN d) \cup (DOMAIN e) |-> IF k \in DOMAIN e THEN e[k] ELSE d[k]]

\* d[k] = v
DictSet(d, k, v) ==
    [x \in (DOMAIN d) \cup {k} |-> IF x = k THEN v ELSE d[x]]

Max(a, b) == IF a >= b THEN a ELSE b
Min(a, b) == IF a <= b THEN a ELSE b

(***************************************************************************)
(* Register block catalog (const.py REGISTER_BLOCKS, in dict order) and    *)
(* the fields each block's parser produces.                                *)
(***************************************************************************)
REGISTER_BLOCKS ==
    << "grid", "pv", "battery", "inverter", "pv_inverter_energy", "settings", "dispatch" >>

Blocks == { REGISTER_BLOCKS[i] : i \in 1..Len(REGISTER_BLOCKS) }

BlockIndex(b) == CHOOSE i \in 1..Len(REGISTER_BLOCKS) : REGISTER_BLOCKS[i] = b

critical_blocks == {"grid", "pv", "battery"}

\* The fields of each block's parser that the derived-value calculator or a
\* write path uses, and one more field for the blocks that have more; the
\* parsers' other fields are written and kept exactly like these.
BlockKeys(b) ==
    CASE b = "grid" -> {"grid_power_total", "grid_voltage_a"}
      [] b = "pv" -> {"pv_ac_power_total", "pv_voltage_a"}
      [] b = "battery" -> {"battery_power", "battery_soc"}
      [] b = "inverter" ->
           {"total_pv_energy", "pv1_power", "pv2_power", "pv3_power", "pv_dc_power_total"}
      [] b = "pv_inverter_energy" -> {"pv_inverter_energy"}
      [] b = "settings" -> {"time_period_control_flag", "max_feed_to_grid"}
      [] b = "dispatch" -> {"dispatch_start", "dispatch_power"}

\* Keys written by _calculate_derived_values.
DerivedKeys ==
    {"pv_power_total", "current_pv_production", "pv_inverter_energy_today",
     "total_house_load", "excess_grid_export", "house_load_estimated"}

(***************************************************************************)
(* Register decoding, abstracted: the device answers a block read with one *)
(* reading v and every field the block's parser produces carries it.       *)
(***************************************************************************)
DecodedBlock(b, v) == [k \in BlockKeys(b) |-> v]

(***************************************************************************)
(* AdaptivePollingManager.  pm is the record of its four dicts, keyed by   *)
(* block name.                                                             *)
(***************************************************************************)
PollingManagerInit ==
    [ block_intervals |-> EmptyDict,
      block_last_poll |-> EmptyDict,
      block_last_values |-> EmptyDict,
      block_consecutive_failures |-> EmptyDict ]

\* self.min_interval = max(min_interval, 10), in milliseconds
min_interval == Max(DEFAULT_MIN_POLL_INTERVAL, 10) * 1000
max_interval == DEFAULT_MAX_POLL_INTERVAL * 1000
default_interval == DEFAULT_POLL_INTERVAL * 1000

should_poll_block(pm, b, now) ==
    LET last_poll == Get(pm.block_last_poll, b, NoTime)
        interval == Get(pm.block_intervals, b, default_interval)
    IN  IF last_poll = NoTime THEN TRUE
        ELSE (now - last_poll) * 1000 >= interval

\* values_changed of update_after_poll
values_changed(pm, b, new_values) ==
    new_values # Get(pm.block_last_values, b, EmptyDict)

\* new_interval of update_after_poll: 10% down to the minimum on a change,
\* 10% up to the maximum without one.
new_interval(current, changed, lowest, highest) ==
    IF changed
    THEN Max((current * 9) \div 10, lowest)
    ELSE Min((current * 11) \div 10, highest)

update_after_poll(pm, b, new_values, now) ==
    LET current == Get(pm.block_intervals, b, default_interval)
        new_interval_ ==
            new_interval(current, values_changed(pm, b, new_values),
                         min_interval, max_interval)
    IN  [pm EXCEPT !.block_intervals = DictSet(@, b, new_interval_),
                   !.block_last_poll = DictSet(@, b, now),
                   !.block_last_values = DictSet(@, b, new_values)]

get_cached_values(pm, b) == Get(pm.block_last_values, b, EmptyDict)

get_block_failures(pm, b) == Get(pm.block_consecutive_failures, b, 0)

record_block_failure(pm, b) ==
    [pm EXCEPT !.block_consecutive_failures = DictSet(@, b, get_block_failures(pm, b) + 1)]

reset_block_failures(pm, b) ==
    [pm EXCEPT !.block_consecutive_failures = DictSet(@, b, 0)]

(***************************************************************************)
(* RecoveryManager.                                                        *)
(***************************************************************************)
RecoveryManagerInit ==
    [ consecutive_failures |-> 0,
      last_successful_update |-> NoTime,
      last_data_change |-> NoTime,
      last_recovery |-> NoTime,
      recovery_count |-> 0 ]

record_success(rm, data_changed, now) ==
    [rm EXCEPT !.consecutive_failures = 0,
               !.last_successful_update = now,
               !.last_data_change = IF data_changed THEN now ELSE @]

record_failure(rm) ==
    [rm EXCEPT !.consecutive_failures = @ + 1]

\* A slip that forgets the cooldown, against which the properties are tested.
CooldownIgnored(rm, now) == TRUE

\* The cooldown part of should_trigger_recovery: TRUE when no cooldown blocks.
CooldownElapsed(rm, now) ==
    \/ rm.last_recovery = NoTime
    \/ now - rm.last_recovery >= RECOVERY_COOLDOWN_SECONDS

\* Trigger B: staleness_seconds / 60.0 >= staleness_threshold_minutes
DataIsStale(rm, now) ==
    /\ rm.last_data_change # NoTime
    /\ now - rm.last_data_change >= DEFAULT_STALENESS_THRESHOLD * 60

should_trigger_recovery(rm, now) ==
    /\ CooldownElapsed(rm, now)
    /\ \/ rm.consecutive_failures >= MaxConsecutiveFailures
       \/ DataIsStale(rm, now)

\* A slip that keeps the failure counter, against which the properties are tested.
record_recovery_attempt_keeping(rm, now) ==
    [rm EXCEPT !.recovery_count = @ + 1, !.last_recovery = now]

record_recovery_attempt(rm, now) ==
    [rm EXCEPT !.recovery_count = @ + 1,
               !.last_recovery = now,
               !.consecutive_failures = 0]

(***************************************************************************)
(* Daily PV energy (_calculate_daily_pv_energy).  de is the record of the  *)
(* coordinator's four daily-tracking fields; energies are whole numbers of *)
(* the unit round(x, 2) keeps, so round is exact on them.                  *)
(***************************************************************************)
DailyEnergyInit ==
    [ last_reset_date |-> NoTime,
      midnight |-> PyNone,
      last_known_total |-> PyNone,
      preserved |-> PyNone ]

DateOf(now) == now \div SecondsPerDay

\* Slips against which the properties are tested: a decrease that is not
\* noticed, a new day that keeps yesterday's baseline, and a decrease that
\* always re-establishes the baseline.
CounterDecreasedNever(daily_energy) == FALSE

NewDayKeepingBaseline(de, total_energy, current_date) ==
    [ value |-> 0, changed |-> TRUE,
      de |-> [de EXCEPT !.last_reset_date = current_date, !.preserved = PyNone] ]

CounterAnomalyResetting(de, total_energy) ==
    [ value |-> 0, changed |-> TRUE, de |-> [de EXCEPT !.midnight = total_energy] ]

\* if daily_energy < 0
CounterDecreased(daily_energy) == daily_energy < 0

\* The new-day branch: baseline, date, preserved value cleared, 0 returned.
NewDay(de, total_energy, current_date) ==
    [ value |-> 0, changed |-> TRUE,
      de |-> [de EXCEPT !.midnight = total_energy,
                        !.last_reset_date = current_date,
                        !.preserved = PyNone] ]

\* The branch for a total below the baseline.
CounterAnomaly(de, total_energy) ==
    IF de.preserved # PyNone /\ de.preserved > 0
    THEN [ value |-> de.preserved, changed |-> FALSE, de |-> de ]
    ELSE [ value |-> 0, changed |-> TRUE, de |-> [de EXCEPT !.midnight = total_energy] ]

\* Returns [value, changed, de]: the daily energy, data_changed and the new fields.
calculate_daily_pv_energy(de, total_energy, now) ==
    LET current_date == DateOf(now)
        daily_energy == total_energy - de.midnight
    IN  IF de.last_reset_date # current_date
        THEN NewDay(de, total_energy, current_date)
        ELSE IF de.midnight # PyNone
        THEN IF CounterDecreased(daily_energy)
             THEN CounterAnomaly(de, total_energy)
             ELSE IF daily_energy > 0
                  THEN [ value |-> daily_energy,
                         changed |-> (de.preserved # daily_energy),
                         de |-> [de EXCEPT !.preserved = daily_energy] ]
                  ELSE [ value |-> daily_energy, changed |-> FALSE, de |-> de ]
        ELSE [ value |-> 0, changed |-> TRUE,
               de |-> [de EXCEPT !.midnight = total_energy,
                                 !.last_reset_date = current_date,
                                 !.preserved = 0] ]

(***************************************************************************)
(* _calculate_derived_values.  reads is successful_reads, the set of the   *)
(* critical blocks read this cycle or cached.  Returns [data, de, save]:   *)
(* the augmented dict, the daily fields and whether a save was scheduled.  *)
(***************************************************************************)
BoolValue(x) == IF x THEN 1 ELSE 0

\* A slip that clamps the load at zero, against which the properties are tested.
house_load_clamped(pv_power, battery_power, grid_power) ==
    Max(0, pv_power + battery_power + grid_power)

\* house_load = pv_power + battery_power + grid_power
house_load(pv_power, battery_power, grid_power) ==
    pv_power + battery_power + grid_power

calculate_derived_values(data, reads, de, now) ==
    LET pv_power_total == Get(data, "pv_dc_power_total", 0) + Get(data, "pv_ac_power_total", 0)
        current_pv == Get(data, "pv1_power", 0) + Get(data, "pv2_power", 0)
                        + Get(data, "pv3_power", 0)
        d1 == DictSet(DictSet(data, "pv_power_total", pv_power_total),
                      "current_pv_production", current_pv)
        pv_inverter_total == Get(d1, "pv_inverter_energy", 0)
        de1 == IF pv_inverter_total # 0
               THEN [de EXCEPT !.last_known_total = pv_inverter_total] ELSE de
        combined == Get(d1, "total_pv_energy", 0) + Get(d1, "pv_inverter_energy", pv_inverter_total)
        daily == calculate_daily_pv_energy(de1, combined, now)
        d2 == IF combined > 0 THEN DictSet(d1, "pv_inverter_energy_today", daily.value)
              ELSE IF de1.preserved # PyNone
              THEN DictSet(d1, "pv_inverter_energy_today", de1.preserved)
              ELSE d1
        de2 == IF combined > 0 THEN daily.de ELSE de1
        save == combined > 0 /\ daily.changed
        available_sources == Cardinality(reads \cap {"pv", "battery", "grid"})
        load == house_load(d2["pv_power_total"], Get(d2, "battery_power", 0),
                           Get(d2, "grid_power_total", 0))
        d3 == IF available_sources >= 2
              THEN DictSet(DictSet(DictSet(d2,
                       "total_house_load", load),
                       "excess_grid_export", IF load < 0 THEN 0 - load ELSE 0),
                       "house_load_estimated", BoolValue(available_sources < 3))
              ELSE DictSet(DictSet(DictSet(d2,
                       "total_house_load", PyNone),
                       "house_load_estimated", PyNone),
                       "excess_grid_export", 0)
    IN  [ data |-> d3, de |-> de2, save |-> save ]

(***************************************************************************)
(* _fetch_data_adaptive.  resp[b] is what the device and the transport     *)
(* client give for block b in this cycle:                                  *)
(*   kind "ok"    the registers decode to reading v;                       *)
(*   kind "none"  read_holding_registers returned None (retries exhausted, *)
(*                permanent error), so _read_block returns {};             *)
(*   kind "short" fewer registers than the parser indexes: IndexError.     *)
(* st carries the loop's locals: the polling manager, data,                *)
(* any_data_changed, successful_reads, and which blocks were decoded or    *)
(* failed, and whether an exception left the loop.                         *)
(***************************************************************************)
\* A slip that blanks a failed block's fields, against which the properties are tested.
FailedBlockDataBlanked(data, b) ==
    [k \in DOMAIN data |-> IF k \in BlockKeys(b) THEN 0 ELSE data[k]]

\* The failed-read branch: no data.update(), data started as the cached snapshot.
FailedBlockData(data, b) == data

FetchBlock(st, b, resp, now) ==
    IF should_poll_block(st.pm, b, now)
    THEN IF resp[b].kind = "short"
         THEN [st EXCEPT !.raised = TRUE]
         ELSE IF resp[b].kind = "ok"
         THEN LET block_data == DecodedBlock(b, resp[b].v)
              IN  [st EXCEPT
                     !.pm = update_after_poll(reset_block_failures(st.pm, b), b, block_data, now),
                     !.changed = @ \/ values_changed(st.pm, b, block_data),
                     !.data = DictUpdate(@, block_data),
                     !.reads = IF b \in critical_blocks THEN @ \cup {b} ELSE @,
                     !.polled_ok = @ \cup {b}]
         ELSE [st EXCEPT !.pm = record_block_failure(st.pm, b),
                         !.data = FailedBlockData(@, b),
                         !.polled_failed = @ \cup {b}]
    ELSE IF b \in critical_blocks /\ get_cached_values(st.pm, b) # EmptyDict
         THEN [st EXCEPT !.reads = @ \cup {b}]
         ELSE st

RECURSIVE FetchLoop(_, _, _, _)
FetchLoop(i, st, resp, now) ==
    IF i > Len(REGISTER_BLOCKS) \/ st.raised THEN st
    ELSE FetchLoop(i + 1, FetchBlock(st, REGISTER_BLOCKS[i], resp, now), resp, now)

\* The critical blocks whose failure count reached the threshold.
TrippedBlocks(pm) ==
    { b \in critical_blocks : get_block_failures(pm, b) >= MaxConsecutiveFailures }

\* Returns the job's result and every field it changed on the way.
fetch_data_adaptive(known, pm0, rm0, de0, resp, now) ==
    LET st0 == [ pm |-> pm0, data |-> known, changed |-> FALSE, reads |-> {},
                 polled_ok |-> {}, polled_failed |-> {}, raised |-> FALSE ]
        st == FetchLoop(1, st0, resp, now)
        tripped == TrippedBlocks(st.pm)
        pm1 == [st.pm EXCEPT !.block_consecutive_failures =
                   [b \in DOMAIN @ |-> IF b \in tripped THEN 0 ELSE @[b]]]
        rm1 == IF tripped # {}
               THEN [rm0 EXCEPT !.consecutive_failures = MaxConsecutiveFailures]
               ELSE rm0
        derived == calculate_derived_values(st.data, st.reads, de0, now)
    IN  IF st.raised
        THEN [ raised |-> TRUE, data |-> EmptyDict, changed |-> FALSE,
               block_changed |-> st.changed,
               pm |-> st.pm, rm |-> rm0, de |-> de0, save |-> FALSE,
               polled_ok |-> st.polled_ok, polled_failed |-> st.polled_failed,
               tripped |-> {} ]
        ELSE [ raised |-> FALSE, data |-> derived.data, changed |-> st.changed,
               block_changed |-> st.changed,
               pm |-> pm1, rm |-> rm1, de |-> derived.de, save |-> derived.save,
               polled_ok |-> st.polled_ok, polled_failed |-> st.polled_failed,
               tripped |-> tripped ]

(***************************************************************************)
(* What the environment supplies.                                          *)
(***************************************************************************)
Readings == 0..MaxReading

\* Seconds from the start of one cycle to the start of the next: a cycle
\* delayed to 30 s, after which a block whose values changed is due again,
\* and a 12-hour gap.
Gaps == {30, 43200}

Ok(v) == [kind |-> "ok", v |-> v]
NoneRead == [kind |-> "none", v |-> 0]
ShortRead == [kind |-> "short", v |-> 0]

\* Blocks whose read fails together: none, one critical block, the whole link.
DownSets == { {}, {"grid"}, Blocks }
\* A block that may answer with a short frame.
ShortBlocks == {"dispatch"}

Responses ==
    { [b \in Blocks |-> Ok(v)] : v \in Readings }
    \cup
    { [b \in Blocks |-> IF b \in S THEN NoneRead ELSE Ok(MaxReading)] : S \in DownSets }
    \cup
    { [b \in Blocks |-> IF b = s THEN ShortRead ELSE Ok(MaxReading)] : s \in ShortBlocks }

\* Outcomes of _perform_recovery's force_reconnect, each only logged.
RecoveryOutcomes == {"success", "failed", "timeout", "error"}

\* Keys and value the write paths patch optimistically.
OptimisticKeys == {"dispatch_start", "dispatch_power", "dispatch_mode"}
OptimisticValues == {7}

(***************************************************************************)
(* The coordinator's state.                                                *)
(***************************************************************************)
VARIABLES
    clock,          \* dt_util.now(), seconds
    pc,             \* "idle", or "finish": the executor job is done, the refresh resumes
    now,            \* the cycle's now, taken at its start
    pm,             \* polling_manager
    rm,             \* recovery_manager
    de,             \* the daily-energy fields
    lastKnownData,  \* _last_known_data: the sticky snapshot
    lastSuccessfulDataTime,  \* _last_successful_data_time
    fetched,        \* what the executor job returned or raised
    result,         \* what the last cycle gave the caller (coordinator.data or UpdateFailed)
    setup,          \* async_setup_entry got past async_config_entry_first_refresh
    cyc,            \* history of the cycle in progress or just finished
    lastDeviceData, \* start time of the last cycle that merged a decoded block
    decoded,        \* per field, the value of the last decode merged into the snapshot
    patchedSince,   \* fields patched optimistically since their last merged decode
    cycles,         \* cycles started
    patches         \* set_optimistic_value calls made

coordVars == << clock, pc, now, pm, rm, de, lastKnownData, lastSuccessfulDataTime,
                fetched, result, setup, cyc, lastDeviceData, decoded, patchedSince,
                cycles, patches >>

NoFetch == [raised |-> FALSE, data |-> EmptyDict, changed |-> FALSE]

NoResult == [kind |-> "none", data |-> EmptyDict, alias |-> FALSE]

CycInit ==
    [ recovered |-> FALSE,        \* _perform_recovery ran in this cycle
      outcome |-> "none",         \* how force_reconnect ended
      failures_at_start |-> 0,    \* rm.consecutive_failures when the cycle began
      recoveries_before |-> 0,    \* rm.recovery_count when the cycle began
      last_recovery_before |-> NoTime, \* rm.last_recovery when the cycle began
      cooldown_elapsed |-> FALSE, \* no cooldown was pending when the cycle began
      stale_at_start |-> FALSE,   \* trigger B held when the cycle began
      raised |-> FALSE,           \* the executor job raised
      after_recovery |-> 0,       \* rm.consecutive_failures right after the recovery step
      tripped_before |-> {},      \* blocks that reached the threshold in the previous cycle
      ok_before |-> {},           \* blocks decoded in the previous cycle
      tripped |-> {},             \* blocks that reached the threshold in this cycle
      polled_ok |-> {},           \* blocks decoded in this cycle
      polled_failed |-> {},       \* blocks whose read failed in this cycle
      block_changed |-> FALSE,    \* update_after_poll returned True for some block in this cycle
      short_reads |-> {},         \* due blocks whose read returned fewer registers than the decoder indexes
      data_at_fetch |-> EmptyDict, \* the snapshot the job copied when it started
      save |-> FALSE ]            \* the job scheduled _save_persistent_data

CoordInit ==
    /\ clock = 0
    /\ pc = "idle"
    /\ now = 0
    /\ pm = PollingManagerInit
    /\ rm = RecoveryManagerInit
    /\ de = DailyEnergyInit
    /\ lastKnownData = EmptyDict
    /\ lastSuccessfulDataTime = NoTime
    /\ fetched = NoFetch
    /\ result = NoResult
    /\ setup = FALSE
    /\ cyc = CycInit
    /\ lastDeviceData = NoTime
    /\ decoded = EmptyDict
    /\ patchedSince = {}
    /\ cycles = 0
    /\ patches = 0

(***************************************************************************)
(* data_age_seconds, is_data_stale, has_valid_data.                        *)
(***************************************************************************)
is_data_stale ==
    IF lastSuccessfulDataTime = NoTime THEN FALSE
    ELSE clock - lastSuccessfulDataTime > DATA_STALE_THRESHOLD

\* A slip that never looks at the age, against which the properties are tested.
has_valid_data_ignoring_age == lastKnownData # EmptyDict

has_valid_data ==
    IF lastKnownData = EmptyDict THEN FALSE
    ELSE IF lastSuccessfulDataTime = NoTime THEN TRUE
    ELSE ~is_data_stale

(***************************************************************************)
(* The Transport Client's command-interval gate (modbus_client.py).  Each  *)
(* executor thread runs one command at a time: _enforce_command_interval   *)
(* reads the clock and _last_command_time, sleeps for what is missing to   *)
(* the interval, stamps _last_command_time and the command goes out.  The  *)
(* gate runs outside self._lock.  Times are in milliseconds.               *)
(***************************************************************************)
PROTOCOL_COMMAND_INTERVAL == 300

\* Commands sent and clock reached in one run.
MaxCommands == 3
MaxGateTime == 1600

\* The clock when the client is constructed (_last_command_time is 0).
GateStart == 1000

Threads == {"poll", "write"}
Ticks == {100, 300}

VARIABLES
    gateClock,           \* time.time()
    last_command_time,   \* self._last_command_time
    thread_pc,           \* per thread: "idle", "sleeping" or "ready"
    thread_wake,         \* per thread: when its time.sleep returns
    sent                 \* the times at which commands went out, in order

gateVars == << gateClock, last_command_time, thread_pc, thread_wake, sent >>

(***************************************************************************)
(* The Transport Client's connection, retry loop and close()               *)
(* (modbus_client.py): one caller thread running reads or writes through   *)
(* _retry_operation, and a thread calling close().                         *)
(***************************************************************************)
VARIABLES
    client,        \* self.client: "none", "closed" (not connected) or "open"
    is_closing,    \* self._is_closing
    lock,          \* self._lock: "free" or "close"
    op,            \* the operation in flight and what it has done so far
    close_pc,      \* "idle" or "closing" (inside close(), holding the lock)
    ops,           \* operations started
    closes,        \* calls of close() that returned
    late_start     \* an operation was started after a close() had returned

clientVars == << client, is_closing, lock, op, close_pc, ops, closes, late_start >>

(***************************************************************************)
(* The dispatch write paths (select.py, switch.py, dynamic_export.py) and  *)
(* the device's dispatch registers at 0x0880.                              *)
(***************************************************************************)
VARIABLES
    command,    \* the control path that ran last and its inputs
    frame,      \* the values list it handed to write_registers(0x0880, values)
    written,    \* what write_registers returned: "none" yet, "ok" (True), "failed" (False)
    device,     \* the 11 registers the device holds at 0x0880
    readback,   \* the dispatch block as _parse_dispatch_registers decodes it
    commands    \* commands issued

dispatchVars == << command, frame, written, device, readback, commands >>

(***************************************************************************)
(* _calculate_derived_values on its own: the data dict and successful_reads *)
(* it is called with, and the dict as it leaves it.                        *)
(***************************************************************************)
VARIABLES
    fetch_state,   \* [data, reads]: the arguments of _calculate_derived_values
    derived        \* data after the call, EmptyDict before it

derivedVars == << fetch_state, derived >>

(***************************************************************************)
(* _calculate_daily_pv_energy on its own, called again and again with the  *)
(* lifetime totals the inverter reports on the dates the calls fall on.    *)
(***************************************************************************)
VARIABLES
    tracker,      \* the four daily-tracking fields of the coordinator
    today,        \* the calendar date, in days
    daily_call,   \* the last call: its total, its date, the fields before it, what it returned
    daily_calls,  \* calls made
    persist,      \* the save debounce, the stored options and the pending reload
    energy        \* the inverter's lifetime counters, the energy keys of the snapshot, the value reported

dailyVars == << tracker, today, daily_call, daily_calls, persist, energy >>

(***************************************************************************)
(* DynamicExportManager: the controller's fields, the power limits it was  *)
(* constructed with, and what the last handler or loop iteration did.      *)
(***************************************************************************)
VARIABLES
    dem,            \* _running, _task, _last_update_time, _last_commanded_power, _start_time, _duration_minutes
    limits,         \* _max_charge_power and _max_discharge_power, in watts
    exportClock,    \* seconds
    export_event,   \* the last start, loop iteration, stop, unload or cancellation
    aio             \* the controller's loop tasks on the event loop and the writes on worker threads

exportVars == << dem, limits, exportClock, export_event, aio >>

(***************************************************************************)
(* AdaptivePollingManager constructed with a configured minimum and        *)
(* maximum: the intervals of its blocks over a series of poll attempts.    *)
(***************************************************************************)
VARIABLES
    poll_config,      \* min_interval and max_interval as stored by __init__, in milliseconds
    poll_intervals,   \* block_intervals
    poll_attempt,     \* the last poll attempt: its block and whether the read succeeded
    poll_attempts     \* attempts made

pollVars == << poll_config, poll_intervals, poll_attempt, poll_attempts >>

\* What each component leaves alone.
outsideCoordinator == << gateVars, clientVars, dispatchVars, derivedVars, dailyVars, exportVars, pollVars >>
outsideGate == << coordVars, clientVars, dispatchVars, derivedVars, dailyVars, exportVars, pollVars >>
outsideClient == << coordVars, gateVars, dispatchVars, derivedVars, dailyVars, exportVars, pollVars >>
outsideDispatch == << gateVars, clientVars, derivedVars, dailyVars, exportVars, pollVars >>
outsideDerived == << coordVars, gateVars, clientVars, dispatchVars, dailyVars, exportVars, pollVars >>
outsideDaily == << coordVars, gateVars, clientVars, dispatchVars, derivedVars, exportVars, pollVars >>
outsideExport == << coordVars, gateVars, clientVars, dispatchVars, derivedVars, dailyVars, pollVars >>
outsidePoll == << coordVars, gateVars, clientVars, dispatchVars, derivedVars, dailyVars, exportVars >>

MAX_RETRIES == 3
\* INITIAL_RETRY_DELAY and MAX_RETRY_DELAY, in milliseconds.
INITIAL_RETRY_DELAY == 500
MAX_RETRY_DELAY == 5000

\* Operations and calls of close() in one run.
MaxOperations == 2
MaxCloses == 2

\* The exceptions an attempt can end with: by class, and for a
\* ModbusException by whether its text holds one of the transient keywords.
ConnectionException == [cls |-> "ConnectionException", keyword |-> TRUE]
Exceptions ==
    { ConnectionException,
      [cls |-> "TimeoutError", keyword |-> FALSE],
      [cls |-> "OSError", keyword |-> FALSE],
      [cls |-> "ModbusException", keyword |-> TRUE],
      [cls |-> "ModbusException", keyword |-> FALSE],
      [cls |-> "ValueError", keyword |-> FALSE],
      [cls |-> "AttributeError", keyword |-> FALSE] }

\* What the device can answer to the I/O call.
IOErrors ==
    { e \in Exceptions : e.cls \in {"TimeoutError", "OSError", "ModbusException"} }

\* The I/O call's outcomes: the registers (or the write's acknowledgement),
\* or one of the errors.
NoError == [cls |-> "none", keyword |-> FALSE]
IOAnswers == {NoError} \cup IOErrors

\* A classifier that retries everything, against which the properties are tested.
is_transient_error_always(e) == TRUE

is_transient_error(e) ==
    \/ e.cls \in {"ConnectionException", "ConnectionError", "TimeoutError", "OSError"}
    \/ e.cls = "ModbusException" /\ e.keyword

NoOperation ==
    [ pc |-> "idle", attempt |-> 0, retry_delay |-> 0, result |-> "none",
      attempts |-> 0,      \* calls of operation() made
      errors |-> << >>,    \* the exception each failed attempt ended with
      sleeps |-> << >>,    \* the backoff slept before each further attempt
      connects |-> 0 ]     \* connections it established

ClientInit ==
    /\ client = "none"
    /\ is_closing = FALSE
    /\ lock = "free"
    /\ op = NoOperation
    /\ close_pc = "idle"
    /\ ops = 0
    /\ closes = 0
    /\ late_start = FALSE

\* A caller enters read_holding_registers, write_register or write_registers:
\* _retry_operation sets retry_delay and starts its loop.
BeginOperation ==
    /\ op.pc = "idle"
    /\ ops < MaxOperations
    /\ ops' = ops + 1
    /\ late_start' = (late_start \/ closes > 0)
    /\ op' = [NoOperation EXCEPT !.pc = "retry_check", !.attempt = 1,
                                 !.retry_delay = INITIAL_RETRY_DELAY]
    /\ UNCHANGED << client, is_closing, lock, close_pc, closes >>
    /\ UNCHANGED outsideClient

\* The except branch of _retry_operation: back off and go round again after
\* a transient error on an attempt before the last, give up otherwise.
AfterException(o, e) ==
    IF o.attempt < MAX_RETRIES /\ is_transient_error(e)
    THEN [o EXCEPT !.pc = "retry_check",
                   !.attempt = @ + 1,
                   !.sleeps = Append(@, o.retry_delay),
                   !.retry_delay = Min(@ * 2, MAX_RETRY_DELAY),
                   !.errors = Append(@, e)]
    ELSE [o EXCEPT !.pc = "idle", !.result = "failed", !.errors = Append(@, e)]

\* Top of the retry loop: give up if the client is closing, else call the
\* operation, which first looks at the closing flag itself.
RetryLoopCheck ==
    /\ op.pc = "retry_check"
    /\ op' = IF is_closing
             THEN [op EXCEPT !.pc = "idle", !.result = "failed"]
             ELSE [op EXCEPT !.pc = "entry_check", !.attempts = @ + 1]
    /\ UNCHANGED << client, is_closing, lock, close_pc, ops, closes, late_start >>
    /\ UNCHANGED outsideClient

OperationEntryCheck ==
    /\ op.pc = "entry_check"
    /\ op' = IF is_closing
             THEN AfterException(op, ConnectionException)
             ELSE [op EXCEPT !.pc = "connect"]
    /\ UNCHANGED << client, is_closing, lock, close_pc, ops, closes, late_start >>
    /\ UNCHANGED outsideClient

\* with self._lock: look at the flag again and connect if there is no open
\* connection; connected says whether connect() succeeds.
EnsureConnected(connected) ==
    /\ op.pc = "connect"
    /\ lock = "free"
    /\ IF is_closing
       THEN /\ op' = AfterException(op, ConnectionException)
            /\ UNCHANGED client
       ELSE IF client = "open"
       THEN /\ connected
            /\ op' = [op EXCEPT !.pc = "validate"]
            /\ UNCHANGED client
       ELSE IF connected
       THEN /\ client' = "open"
            /\ op' = [op EXCEPT !.pc = "validate", !.connects = @ + 1]
       ELSE /\ client' = "closed"
            /\ op' = AfterException(op, ConnectionException)
    /\ UNCHANGED << is_closing, lock, close_pc, ops, closes, late_start >>
    /\ UNCHANGED outsideClient

\* if not self.client: raise ConnectionException("Client not initialized")
ValidateClient ==
    /\ op.pc = "validate"
    /\ op' = IF client = "none"
             THEN AfterException(op, ConnectionException)
             ELSE [op EXCEPT !.pc = "io"]
    /\ UNCHANGED << client, is_closing, lock, close_pc, ops, closes, late_start >>
    /\ UNCHANGED outsideClient

\* The pymodbus call and the isError() test.  On None the call raises
\* AttributeError; on a connection that is not open it fails.
PerformIO(answer) ==
    /\ op.pc = "io"
    /\ op' = IF client = "none"
             THEN AfterException(op, [cls |-> "AttributeError", keyword |-> FALSE])
             ELSE IF client = "closed"
             THEN AfterException(op, ConnectionException)
             ELSE IF answer = NoError
             THEN [op EXCEPT !.pc = "idle", !.result = "ok"]
             ELSE AfterException(op, answer)
    /\ UNCHANGED << client, is_closing, lock, close_pc, ops, closes, late_start >>
    /\ UNCHANGED outsideClient

\* close() takes the lock and raises the flag ...
CloseBegin ==
    /\ close_pc = "idle"
    /\ closes < MaxCloses
    /\ lock = "free"
    /\ lock' = "close"
    /\ is_closing' = TRUE
    /\ close_pc' = "closing"
    /\ UNCHANGED << client, op, ops, closes, late_start >>
    /\ UNCHANGED outsideClient

\* ... closes and drops the connection, lowers the flag and returns.
CloseFinish ==
    /\ close_pc = "closing"
    /\ client' = "none"
    /\ is_closing' = FALSE
    /\ lock' = "free"
    /\ close_pc' = "idle"
    /\ closes' = closes + 1
    /\ UNCHANGED << op, ops, late_start >>
    /\ UNCHANGED outsideClient

OperationStep ==
    \/ RetryLoopCheck
    \/ OperationEntryCheck
    \/ \E connected \in BOOLEAN : EnsureConnected(connected)
    \/ ValidateClient
    \/ \E answer \in IOAnswers : PerformIO(answer)

GateInit ==
    /\ gateClock = GateStart
    /\ last_command_time = 0
    /\ thread_pc = [t \in Threads |-> "idle"]
    /\ thread_wake = [t \in Threads |-> 0]
    /\ sent = << >>

\* time.time() - self._last_command_time
time_since_last == gateClock - last_command_time

\* The thread enters the gate: it reads the clock and the stamp and either
\* goes to sleep for the missing time or passes at once.
EnforceCommandInterval(t) ==
    /\ thread_pc[t] = "idle"
    /\ Len(sent) + Cardinality({u \in Threads : thread_pc[u] # "idle"}) < MaxCommands
    /\ IF time_since_last < PROTOCOL_COMMAND_INTERVAL
       THEN /\ thread_pc' = [thread_pc EXCEPT ![t] = "sleeping"]
            /\ thread_wake' = [thread_wake EXCEPT
                                 ![t] = gateClock + (PROTOCOL_COMMAND_INTERVAL - time_since_last)]
       ELSE /\ thread_pc' = [thread_pc EXCEPT ![t] = "ready"]
            /\ UNCHANGED thread_wake
    /\ UNCHANGED << gateClock, last_command_time, sent >>
    /\ UNCHANGED outsideGate

\* time.sleep(sleep_time) returns.
SleepReturns(t) ==
    /\ thread_pc[t] = "sleeping"
    /\ gateClock >= thread_wake[t]
    /\ thread_pc' = [thread_pc EXCEPT ![t] = "ready"]
    /\ UNCHANGED << gateClock, last_command_time, thread_wake, sent >>
    /\ UNCHANGED outsideGate

\* self._last_command_time = time.time(), and the command goes out.
SendCommand(t) ==
    /\ thread_pc[t] = "ready"
    /\ last_command_time' = gateClock
    /\ sent' = Append(sent, gateClock)
    /\ thread_pc' = [thread_pc EXCEPT ![t] = "idle"]
    /\ UNCHANGED << gateClock, thread_wake >>
    /\ UNCHANGED outsideGate

\* Time passes.
Tick(d) ==
    /\ gateClock + d <= MaxGateTime
    /\ gateClock' = gateClock + d
    /\ UNCHANGED << last_command_time, thread_pc, thread_wake, sent >>
    /\ UNCHANGED outsideGate

(***************************************************************************)
(* _async_update_data up to the end of the executor job: take now,         *)
(* evaluate the recovery manager and, if it signals, await                 *)
(* _perform_recovery and record the attempt; then run                      *)
(* _fetch_data_adaptive(now) against the device.  gap is the time that     *)
(* passed since the previous cycle, resp the device's answers and outcome  *)
(* how force_reconnect ends if it is called.  The job copies the snapshot  *)
(* when it starts; the event loop is free until it returns.                *)
(***************************************************************************)
StartCycle(gap, resp, outcome, bound) ==
    /\ pc = "idle"
    /\ cycles < bound
    /\ clock' = clock + gap
    /\ now' = clock'
    /\ cycles' = cycles + 1
    /\ pc' = "finish"
    /\ LET t == clock + gap
           recover == should_trigger_recovery(rm, t)
           rm1 == IF recover THEN record_recovery_attempt(rm, t) ELSE rm
       IN  /\ recover \/ outcome = "error"
           /\ \E f \in { fetch_data_adaptive(lastKnownData, pm, rm1, de, resp, t) } :
                /\ pm' = f.pm
                /\ rm' = f.rm
                /\ de' = f.de
                /\ fetched' = [raised |-> f.raised, data |-> f.data, changed |-> f.changed]
                /\ cyc' = [ recovered |-> recover,
                            outcome |-> IF recover THEN outcome ELSE "none",
                            failures_at_start |-> rm.consecutive_failures,
                            recoveries_before |-> rm.recovery_count,
                            last_recovery_before |-> rm.last_recovery,
                            cooldown_elapsed |-> CooldownElapsed(rm, t),
                            stale_at_start |-> DataIsStale(rm, t),
                            raised |-> f.raised,
                            after_recovery |-> rm1.consecutive_failures,
                            tripped_before |-> cyc.tripped,
                            ok_before |-> cyc.polled_ok,
                            tripped |-> f.tripped,
                            polled_ok |-> f.polled_ok,
                            polled_failed |-> f.polled_failed,
                            block_changed |-> f.block_changed,
                            short_reads |-> { b \in Blocks : resp[b].kind = "short"
                                                               /\ should_poll_block(pm, b, t) },
                            data_at_fetch |-> lastKnownData,
                            save |-> f.save ]
    /\ UNCHANGED << lastKnownData, lastSuccessfulDataTime, result, setup,
                    lastDeviceData, decoded, patchedSince, patches >>
    /\ UNCHANGED outsideCoordinator

(***************************************************************************)
(* _async_update_data, second part: the job returned (record success,      *)
(* merge, stamp, return a copy) or raised (record failure, return the      *)
(* cache if there is one younger than 12 hours, else raise UpdateFailed).  *)
(* A first refresh that raises UpdateFailed makes async_setup_entry fail:  *)
(* the coordinator is dropped and a later retry constructs a new one.      *)
(***************************************************************************)
\* A slip that replaces the snapshot by the job's data, against which the properties are tested.
MergeReplacing(snapshot, data) == data

\* self._last_known_data.update(data)
MergeIntoSnapshot(snapshot, data) == DictUpdate(snapshot, data)

\* A slip that returns the cache however old, against which the properties are tested.
CacheUsableAnyAge ==
    /\ lastKnownData # EmptyDict
    /\ lastSuccessfulDataTime # NoTime

CacheUsable ==
    /\ lastKnownData # EmptyDict
    /\ lastSuccessfulDataTime # NoTime
    /\ now - lastSuccessfulDataTime < DATA_STALE_THRESHOLD

\* The fields the blocks decoded in this cycle produce.
DecodedKeys == UNION { BlockKeys(b) : b \in cyc.polled_ok }

FinishCycle ==
    /\ pc = "finish"
    /\ pc' = "idle"
    /\ fetched' = NoFetch
    /\ IF ~fetched.raised
       THEN /\ rm' = record_success(rm, fetched.changed, now)
            /\ lastKnownData' = MergeIntoSnapshot(lastKnownData, fetched.data)
            /\ lastSuccessfulDataTime' = now
            /\ result' = [kind |-> "data", data |-> lastKnownData', alias |-> FALSE]
            /\ setup' = TRUE
            /\ lastDeviceData' = IF cyc.polled_ok # {} THEN now ELSE lastDeviceData
            /\ decoded' = DictUpdate(decoded, [k \in DecodedKeys |-> fetched.data[k]])
            /\ patchedSince' = patchedSince \ DecodedKeys
            /\ UNCHANGED << pm, de, cyc >>
       ELSE IF CacheUsable
       THEN /\ rm' = record_failure(rm)
            /\ result' = [kind |-> "data", data |-> lastKnownData, alias |-> TRUE]
            /\ UNCHANGED << pm, de, cyc, lastKnownData, lastSuccessfulDataTime, setup,
                            lastDeviceData, decoded, patchedSince >>
       ELSE IF setup
       THEN /\ rm' = record_failure(rm)
            /\ result' = [kind |-> "UpdateFailed", data |-> EmptyDict, alias |-> FALSE]
            /\ UNCHANGED << pm, de, cyc, lastKnownData, lastSuccessfulDataTime, setup,
                            lastDeviceData, decoded, patchedSince >>
       ELSE /\ rm' = RecoveryManagerInit
            /\ pm' = PollingManagerInit
            /\ de' = DailyEnergyInit
            /\ cyc' = [CycInit EXCEPT !.raised = TRUE]
            /\ result' = [kind |-> "UpdateFailed", data |-> EmptyDict, alias |-> FALSE]
            /\ UNCHANGED << lastKnownData, lastSuccessfulDataTime, setup, lastDeviceData,
                            decoded, patchedSince >>
    /\ UNCHANGED << clock, now, cycles, patches >>
    /\ UNCHANGED outsideCoordinator

(***************************************************************************)
(* set_optimistic_value(key, value), called by the entities' write paths   *)
(* on the event loop, also while the executor job runs.  The failure path  *)
(* returns the cache itself, so coordinator.data then sees the patch.      *)
(***************************************************************************)
SetOptimisticValue(key, value, bound) ==
    /\ setup
    /\ patches < bound
    /\ patches' = patches + 1
    /\ lastKnownData' = DictSet(lastKnownData, key, value)
    /\ result' = IF result.alias THEN [result EXCEPT !.data = lastKnownData'] ELSE result
    /\ patchedSince' = patchedSince \cup {key}
    /\ UNCHANGED << clock, pc, now, pm, rm, de, lastSuccessfulDataTime, fetched, setup,
                    cyc, lastDeviceData, decoded, cycles >>
    /\ UNCHANGED outsideCoordinator

(***************************************************************************)
(* Dispatch frames.  A command is the control path and the inputs it read  *)
(* from the number entities, power already as power_watts =                *)
(* int(power * 1000).                                                      *)
(***************************************************************************)
MODBUS_OFFSET == 32000
DISPATCH_MODE_POWER_WITH_SOC == 2
DISPATCH_MODE_DYNAMIC_EXPORT == 99
DISPATCH_DURATION_DEFAULT == 90
MIN_SOC_PERCENT == 0
MAX_SOC_PERCENT == 100
MIN_SOC_REGISTER == 0
MAX_SOC_REGISTER == 255
\* SOC_CONVERSION_FACTOR = 2.55, in hundredths.
SOC_CONVERSION_FACTOR == 255
\* The largest value of a 16-bit register.
RegisterMax == 65535

DISPATCH_RESET_VALUES ==
    << 0, 0, MODBUS_OFFSET, 0, MODBUS_OFFSET, 0, 0, 0, DISPATCH_DURATION_DEFAULT, 255, 0 >>

\* The percentages p for which the double p * 2.55 lies just below n + 0.5
\* (2.55 is stored as 2.54999999999999982...): 50 * 2.55 is
\* 127.49999999999999 and 90 * 2.55 is 229.49999999999997, while 10, 30 and
\* 70 give exactly 25.5, 76.5 and 178.5.
ProductBelowHalf == {50, 90}

\* select.py: round(soc_percent * SOC_CONVERSION_FACTOR), clamped.  round()
\* takes an exact half to the even neighbour.
select_soc_percent_to_register(soc_percent) ==
    LET hundredths == soc_percent * SOC_CONVERSION_FACTOR
        whole == hundredths \div 100
        rest == hundredths % 100
        register_value ==
            IF rest > 50 THEN whole + 1
            ELSE IF rest < 50 THEN whole
            ELSE IF soc_percent \in ProductBelowHalf THEN whole
            ELSE IF whole % 2 = 0 THEN whole ELSE whole + 1
    IN  Max(MIN_SOC_REGISTER, Min(MAX_SOC_REGISTER, register_value))

\* switch.py: int(soc_percent / SOC_CONVERSION_FACTOR), clamped.
switch_soc_percent_to_register(soc_percent) ==
    Max(MIN_SOC_REGISTER,
        Min(MAX_SOC_REGISTER, (soc_percent * 100) \div SOC_CONVERSION_FACTOR))

\* dynamic_export.py: int(soc_percent * 2.5), clamped to 0..250.
dynamic_export_soc_percent_to_register(soc_percent) ==
    Max(0, Min(250, (soc_percent * 5) \div 2))

\* NeovoltDispatchModeSelect
select_start_force_charge(power_watts, soc_target, duration) ==
    << 1, 0, MODBUS_OFFSET - power_watts, 0, 0, DISPATCH_MODE_POWER_WITH_SOC,
       select_soc_percent_to_register(soc_target), 0, Min(duration * 60, RegisterMax),
       255, 0 >>

select_start_force_discharge(power_watts, soc_cutoff, duration) ==
    << 1, 0, MODBUS_OFFSET + power_watts, 0, 0, DISPATCH_MODE_POWER_WITH_SOC,
       select_soc_percent_to_register(soc_cutoff), 0, Min(duration * 60, RegisterMax),
       255, 0 >>

select_start_no_battery_charge(duration) ==
    << 1, 0, 0, 0, 0, 19, 0, 0, Min(duration * 60, RegisterMax), 255, 0 >>

\* NeovoltForceChargeSwitch and NeovoltForceDischargeSwitch, async_turn_on
switch_force_charge_on(power_watts, soc_target, duration) ==
    << 1, 0, MODBUS_OFFSET - power_watts, 0, MODBUS_OFFSET, DISPATCH_MODE_POWER_WITH_SOC,
       switch_soc_percent_to_register(soc_target), 0, duration * 60 >>

switch_force_discharge_on(power_watts, soc_cutoff, duration) ==
    << 1, 0, MODBUS_OFFSET + power_watts, 0, MODBUS_OFFSET, DISPATCH_MODE_POWER_WITH_SOC,
       switch_soc_percent_to_register(soc_cutoff), 0, duration * 60 >>

\* DynamicExportManager; timeout_seconds = 600
send_discharge_command(power_watts, soc_cutoff) ==
    << 1, 0, MODBUS_OFFSET + power_watts, 0, 0, DISPATCH_MODE_POWER_WITH_SOC,
       dynamic_export_soc_percent_to_register(soc_cutoff), 0, Min(600, RegisterMax),
       255, 0 >>

send_charge_command(power_watts, soc_target) ==
    << 1, 0, MODBUS_OFFSET - power_watts, 0, 0, DISPATCH_MODE_POWER_WITH_SOC,
       dynamic_export_soc_percent_to_register(soc_target), 0, Min(600, RegisterMax),
       255, 0 >>

ChargePaths == {"select_force_charge", "switch_charge_on", "dynamic_charge"}
DischargePaths == {"select_force_discharge", "switch_discharge_on", "dynamic_discharge"}
SelectPaths == {"select_force_charge", "select_force_discharge"}
SwitchPaths == {"switch_charge_on", "switch_discharge_on"}
DynamicPaths == {"dynamic_charge", "dynamic_discharge"}
\* The three buttons of button.py (dispatch reset, stop charging, stop
\* discharging) do the same thing.
ButtonPaths == {"button_reset"}
ResetPaths ==
    {"select_stop", "switch_charge_off", "switch_discharge_off", "dynamic_stop"}
    \cup ButtonPaths
PowerPaths == ChargePaths \cup DischargePaths
Paths == PowerPaths \cup ResetPaths \cup {"select_no_battery_charge"}

Cmd(path, power_watts, soc, duration) ==
    [path |-> path, power_watts |-> power_watts, soc |-> soc, duration |-> duration]

NoCommand == Cmd("none", 0, 0, 0)

\* The values list each path builds.
DispatchValues(cmd) ==
    CASE cmd.path = "select_force_charge" ->
           select_start_force_charge(cmd.power_watts, cmd.soc, cmd.duration)
      [] cmd.path = "select_force_discharge" ->
           select_start_force_discharge(cmd.power_watts, cmd.soc, cmd.duration)
      [] cmd.path = "select_no_battery_charge" ->
           select_start_no_battery_charge(cmd.duration)
      [] cmd.path = "switch_charge_on" ->
           switch_force_charge_on(cmd.power_watts, cmd.soc, cmd.duration)
      [] cmd.path = "switch_discharge_on" ->
           switch_force_discharge_on(cmd.power_watts, cmd.soc, cmd.duration)
      [] cmd.path = "dynamic_discharge" ->
           send_discharge_command(cmd.power_watts, cmd.soc)
      [] cmd.path = "dynamic_charge" ->
           send_charge_command(cmd.power_watts, cmd.soc)
      [] cmd.path \in ResetPaths -> DISPATCH_RESET_VALUES

\* The signed power a command asks for: negative charges, positive discharges.
SignedPower(cmd) ==
    IF cmd.path \in ChargePaths THEN 0 - cmd.power_watts
    ELSE IF cmd.path \in DischargePaths THEN cmd.power_watts
    ELSE 0

\* The set_optimistic_value calls that follow the write, as one dict.
OptimisticPatch(cmd) ==
    LET start == IF cmd.path \in ResetPaths THEN 0 ELSE 1
        mode == IF cmd.path \in SelectPaths THEN 2
                ELSE IF cmd.path \in DynamicPaths THEN DISPATCH_MODE_DYNAMIC_EXPORT
                ELSE IF cmd.path = "select_no_battery_charge" THEN 19
                ELSE 0
        keys == IF cmd.path \in ButtonPaths THEN {}
                ELSE IF cmd.path \in SwitchPaths \cup {"switch_charge_off", "switch_discharge_off"}
                THEN {"dispatch_start", "dispatch_power"}
                ELSE {"dispatch_start", "dispatch_power", "dispatch_mode"}
    IN  [k \in keys |-> IF k = "dispatch_start" THEN start
                        ELSE IF k = "dispatch_power" THEN SignedPower(cmd)
                        ELSE mode]

\* _to_unsigned_32: (high << 16) | low
to_unsigned_32(high, low) == high * 65536 + low

parse_dispatch_registers(regs) ==
    [ dispatch_start |-> regs[1],
      dispatch_power |-> to_unsigned_32(regs[2], regs[3]) - 32000 ]

\* _retry_operation as a function of the answers the attempts get: True on
\* the first success, None (so write_registers returns False) otherwise.
RECURSIVE retry_operation(_, _)
retry_operation(answers, attempt) ==
    IF attempt > MAX_RETRIES THEN FALSE
    ELSE IF answers[attempt] = NoError THEN TRUE
    ELSE IF attempt < MAX_RETRIES /\ is_transient_error(answers[attempt])
    THEN retry_operation(answers, attempt + 1)
    ELSE FALSE

\* A holding register is 16 bits wide.
Encodable(values) == \A i \in 1..Len(values) : values[i] \in 0..RegisterMax

\* The library packs each value into 16 bits: a value outside 0..65535 is
\* refused with an error that is not transient ("reject"), or loses its
\* upper bits ("wrap"), depending on the library.
Packings == {"reject", "wrap"}

\* write_registers(0x0880, values): whether it returned True, and the
\* registers that then reached the device.
write_registers(values, answers, packing) ==
    LET done == (Encodable(values) \/ packing = "wrap") /\ retry_operation(answers, 1)
    IN  [ result |-> done,
          registers |-> IF done THEN [i \in 1..Len(values) |-> values[i] % (RegisterMax + 1)]
                        ELSE << >> ]

\* The device stores the registers it was sent and keeps the others.
DeviceAfterWrite(dev, registers) ==
    [i \in 1..Len(dev) |-> IF i <= Len(registers) THEN registers[i] ELSE dev[i]]

AnswerSequences == [1..MAX_RETRIES -> {NoError, [cls |-> "TimeoutError", keyword |-> FALSE]}]

DispatchInit ==
    /\ command = NoCommand
    /\ frame = << >>
    /\ written = "none"
    /\ device = DISPATCH_RESET_VALUES
    /\ readback = EmptyDict
    /\ commands = 0

(***************************************************************************)
(* A control path from the user's action to the end of its handler: it     *)
(* builds values, awaits write_registers in the executor, and then calls   *)
(* set_optimistic_value for each key, whatever write_registers returned.   *)
(***************************************************************************)
DispatchCommand(cmd, answers, packing, bound) ==
    /\ setup
    /\ commands < bound
    /\ commands' = commands + 1
    /\ command' = cmd
    /\ frame' = DispatchValues(cmd)
    /\ \E w \in { write_registers(DispatchValues(cmd), answers, packing) } :
          /\ written' = IF w.result THEN "ok" ELSE "failed"
          /\ device' = DeviceAfterWrite(device, w.registers)
    /\ readback' = EmptyDict
    /\ \E patched \in { DictUpdate(lastKnownData, OptimisticPatch(cmd)) } :
          /\ lastKnownData' = patched
          /\ result' = IF result.alias THEN [result EXCEPT !.data = patched] ELSE result
    /\ patchedSince' = patchedSince \cup DOMAIN OptimisticPatch(cmd)
    /\ UNCHANGED << clock, pc, now, pm, rm, de, lastSuccessfulDataTime, fetched, setup,
                    cyc, lastDeviceData, decoded, cycles, patches >>
    /\ UNCHANGED outsideDispatch

(***************************************************************************)
(* The same steps one at a time, for a command given from the start: the   *)
(* path builds its values, the transport writes them, and the dispatch     *)
(* block is read back and decoded.                                         *)
(***************************************************************************)
BuildValues ==
    /\ command # NoCommand
    /\ frame = << >>
    /\ frame' = DispatchValues(command)
    /\ commands' = commands + 1
    /\ UNCHANGED << command, written, device, readback >>
    /\ UNCHANGED << coordVars, gateVars, clientVars, derivedVars, dailyVars, exportVars, pollVars >>

WriteRegisters(answers, packing) ==
    /\ frame # << >>
    /\ written = "none"
    /\ \E w \in { write_registers(frame, answers, packing) } :
          /\ written' = IF w.result THEN "ok" ELSE "failed"
          /\ device' = DeviceAfterWrite(device, w.registers)
    /\ UNCHANGED << command, frame, readback, commands >>
    /\ UNCHANGED << coordVars, gateVars, clientVars, derivedVars, dailyVars, exportVars, pollVars >>

ReadDispatchBlock ==
    /\ written # "none"
    /\ readback = EmptyDict
    /\ readback' = parse_dispatch_registers(device)
    /\ UNCHANGED << command, frame, written, device, commands >>
    /\ UNCHANGED << coordVars, gateVars, clientVars, derivedVars, dailyVars, exportVars, pollVars >>

(***************************************************************************)
(* The coordinator's refresh cycles, one after the other.                  *)
(***************************************************************************)
Next ==
    \/ \E gap \in Gaps, resp \in Responses, outcome \in RecoveryOutcomes :
          StartCycle(gap, resp, outcome, MaxCycles)
    \/ FinishCycle

vars == << coordVars, gateVars, clientVars, dispatchVars, derivedVars, dailyVars, exportVars, pollVars >>

NoFetchState == [data |-> EmptyDict, reads |-> {}]

DerivedInit ==
    /\ fetch_state = NoFetchState
    /\ derived = EmptyDict

NoDailyCall ==
    [ total |-> 0, date |-> NoTime, before |-> DailyEnergyInit, value |-> 0, changed |-> FALSE ]

\* SAVE_DEBOUNCE_INTERVAL = timedelta(minutes=5), in seconds.
SAVE_DEBOUNCE_INTERVAL == 300

\* The two update listeners of the repository: the one of the integration
\* package reloads the entry on every options update, the one at the root
\* returns when the options hold runtime keys only.
UpdateListeners == {"package", "root"}

\* Times are kept as the seconds elapsed since the event, up to the debounce
\* interval (beyond it nothing compares them), NoTime when it never happened:
\* since_save for _last_save_time, since_write for the last write of the
\* options, last_gap for the time between the last two writes.  dropped
\* says that a save was debounced since the last write, odd_cycle is the
\* parity of the cycles run.
PersistInit(listener) ==
    [ since_save |-> NoTime, since_write |-> NoTime, last_gap |-> NoTime,
      options |-> DailyEnergyInit, listener |-> listener,
      reload_pending |-> FALSE, dropped |-> FALSE, odd_cycle |-> FALSE ]

\* dc and ac are the inverter's lifetime counters (total_pv_energy,
\* pv_inverter_energy), data the energy keys of the snapshot, reported the
\* pv_inverter_energy_today of the last cycle, at_baseline the sum of the
\* counters when the midnight baseline was last set, both_at_baseline
\* whether the snapshot held both keys then.
EnergyInit(dc, ac) ==
    [ dc |-> dc, ac |-> ac, data |-> EmptyDict, reported |-> PyNone,
      at_baseline |-> PyNone, both_at_baseline |-> FALSE ]

DailyInit ==
    /\ energy = EnergyInit(1, 1)
    /\ persist = PersistInit("root")
    /\ tracker = DailyEnergyInit
    /\ today = 0
    /\ daily_call = NoDailyCall
    /\ daily_calls = 0

\* DynamicExportManager.__init__
DynamicExportManagerInit ==
    [ running |-> FALSE, task |-> "none", last_update_time |-> NoTime,
      last_commanded_power |-> 0, start_time |-> NoTime, duration_minutes |-> 0 ]

NoExportEvent ==
    [ kind |-> "none", was_running |-> FALSE, time |-> 0, expired |-> FALSE,
      load |-> PyNone, needed |-> 0, change |-> 0, since |-> PyNone,
      skipped |-> FALSE, values |-> << >>, registers |-> << >>,
      reset |-> FALSE, cancelled |-> FALSE ]

DEFAULT_MAX_CHARGE_POWER == 5000
DEFAULT_MAX_DISCHARGE_POWER == 5000
MAX_POWER_LIMIT == 100000

MaxLoops == 2
Loops == 1..MaxLoops
\* The caller's handler (the select) as the owner of a write.
Caller == 0

NoJob == [ kind |-> "none", attempt |-> 0 ]

\* running and task are the manager's _running and _task (0 for None);
\* tasks[id] is where the coroutine of loop id is; jobs[o] is the
\* write_registers call that owner o has on a worker thread; device is the
\* frame the inverter took last and whose it was.  The flags record what
\* has happened: reset_written, the caller's reset frame was written after
\* its stop() and no start() came since; late_command, a charge/discharge
\* frame reached the device while reset_written; stale_tick, a loop other
\* than the manager's task ran an iteration; self_stopped, a loop called
\* stop() from _stop_dispatch; cancelled_mid_write, the caller's stop()
\* cancelled a task that had a write on a worker thread.
AioInit ==
    [ running |-> FALSE, task |-> 0,
      tasks |-> [id \in Loops |-> "unborn"],
      jobs |-> [o \in {Caller} \cup Loops |-> NoJob],
      device |-> [kind |-> "none", owner |-> Caller],
      reset_written |-> FALSE, late_command |-> FALSE, stale_tick |-> FALSE,
      self_stopped |-> FALSE, cancelled_mid_write |-> FALSE ]

ExportInit ==
    /\ aio = AioInit
    /\ dem = DynamicExportManagerInit
    /\ limits = [ max_charge |-> DEFAULT_MAX_CHARGE_POWER,
                  max_discharge |-> DEFAULT_MAX_DISCHARGE_POWER ]
    /\ exportClock = 0
    /\ export_event = NoExportEvent

\* AdaptivePollingManager.__init__ with the given arguments, in seconds.
PollConfig(configured_min, configured_max) ==
    [ min_interval |-> Max(configured_min, 10) * 1000,
      max_interval |-> configured_max * 1000 ]

NoPollAttempt == [ block |-> "none", ok |-> FALSE, changed |-> FALSE ]

PollInit ==
    /\ poll_config = PollConfig(DEFAULT_MIN_POLL_INTERVAL, DEFAULT_MAX_POLL_INTERVAL)
    /\ poll_intervals = EmptyDict
    /\ poll_attempt = NoPollAttempt
    /\ poll_attempts = 0

Init == CoordInit /\ GateInit /\ ClientInit /\ DispatchInit /\ DerivedInit /\ DailyInit /\ ExportInit /\ PollInit

Spec == Init /\ [][Next]_vars

(***************************************************************************)
(* The write paths patch the snapshot from the event loop while cycles     *)
(* run: between two cycles and while the executor job of one is out.  The  *)
(* device answers every block, drops the grid block, or sends a dispatch   *)
(* frame too short for its parser.                                         *)
(***************************************************************************)
MaxPatchCycles == 3

PatchResponses ==
    { [b \in Blocks |-> Ok(MaxReading)] }
    \cup
    { [b \in Blocks |-> IF b = "grid" THEN NoneRead ELSE Ok(0)] }
    \cup
    { [b \in Blocks |-> IF b = s THEN ShortRead ELSE Ok(MaxReading)] : s \in ShortBlocks }

\* self.client.force_reconnect does not exist: the reconnect ends in an error.
PatchOutcomes == {"error"}

NextPatches ==
    \/ \E gap \in Gaps, resp \in PatchResponses, outcome \in PatchOutcomes :
          StartCycle(gap, resp, outcome, MaxPatchCycles)
    \/ FinishCycle
    \/ \E key \in OptimisticKeys, value \in OptimisticValues :
          SetOptimisticValue(key, value, MaxPatches)

SpecPatches == Init /\ [][NextPatches]_vars

(***************************************************************************)
(* Cycle-level failures: the device answers every block, and now and then  *)
(* with a frame too short for its parser, so that whole cycles fail.  No   *)
(* write path runs.                                                        *)
(***************************************************************************)
MaxFailureCycles == 5

FailureResponses ==
    { [b \in Blocks |-> Ok(MaxReading)] }
    \cup
    { [b \in Blocks |-> IF b = s THEN ShortRead ELSE Ok(MaxReading)] : s \in ShortBlocks }

NextFailures ==
    \/ \E gap \in Gaps, resp \in FailureResponses, outcome \in RecoveryOutcomes :
          StartCycle(gap, resp, outcome, MaxFailureCycles)
    \/ FinishCycle

SpecFailures == Init /\ [][NextFailures]_vars

(***************************************************************************)
(* Properties of the coordinator.                                          *)
(***************************************************************************)

\* C1: the key set of the sticky snapshot never shrinks: every step (the
\* end of a fetch cycle with some or all reads failed, a recovery, an
\* optimistic patch) leaves every key that was in the snapshot in it.
C1_KeysNeverShrink ==
    [][(DOMAIN lastKnownData) \subseteq (DOMAIN lastKnownData')]_vars

\* A recovery ran, a key was patched, the last cycle had failed reads, and
\* the keys of the failed block and the derived keys are all still there.
C1_Witness ==
    /\ pc = "idle"
    /\ rm.recovery_count >= 1
    /\ patches >= 1
    /\ "grid" \in cyc.polled_failed
    /\ (BlockKeys("grid") \cup DerivedKeys \cup {"dispatch_mode"}) \subseteq DOMAIN lastKnownData

C3_CycleFailureFallback ==
    /\ result.kind = "data" => result.data # EmptyDict
    /\ (pc = "idle" /\ cyc.raised) =>
          IF /\ lastKnownData # EmptyDict
             /\ rm.last_successful_update # NoTime
             /\ now - rm.last_successful_update < DATA_STALE_THRESHOLD
          THEN result.kind = "data" /\ result.data = lastKnownData
          ELSE result.kind = "UpdateFailed"

\* A cycle failed with a non-empty snapshot that was exactly 12 hours old
\* and was refused.
C3_Witness ==
    /\ pc = "idle"
    /\ cyc.raised
    /\ lastKnownData # EmptyDict
    /\ now - rm.last_successful_update = DATA_STALE_THRESHOLD
    /\ result.kind = "UpdateFailed"

\* C4: when the link is down (every read of the last cycle failed) and the
\* last data obtained from the device is more than 12 hours old, the
\* coordinator has no valid data and the cycle ended in a hard failure.
C4_StaleAfterLinkDown ==
    ( /\ pc = "idle"
      /\ lastDeviceData # NoTime
      /\ cyc.polled_ok = {}
      /\ cyc.polled_failed = Blocks
      /\ clock - lastDeviceData > DATA_STALE_THRESHOLD )
    => (~has_valid_data /\ result.kind = "UpdateFailed")

C6_RecoveryAfterFailures ==
    /\ (cyc.failures_at_start >= MaxConsecutiveFailures /\ cyc.cooldown_elapsed) =>
          /\ cyc.recovered
          /\ rm.recovery_count = cyc.recoveries_before + 1
          /\ cyc.after_recovery = 0
          /\ pc = "finish" => fetched # NoFetch
    /\ (cyc.failures_at_start < MaxConsecutiveFailures /\ ~cyc.stale_at_start) =>
          /\ ~cyc.recovered
          /\ rm.recovery_count = cyc.recoveries_before

\* T whole cycles failed, the next one attempted recovery, the reconnect
\* timed out, and the fetch ran all the same.
C6_Witness ==
    /\ pc = "finish"
    /\ cyc.failures_at_start = MaxConsecutiveFailures
    /\ ~cyc.stale_at_start
    /\ cyc.recovered
    /\ cyc.outcome = "timeout"
    /\ cyc.after_recovery = 0
    /\ fetched # NoFetch

\* C7: a cycle that follows one in which a critical block's failure count
\* reached T while other blocks were decoded, and that starts with no
\* cooldown pending, attempts recovery.
C7_BlockThresholdRecovers ==
    (cyc.tripped_before # {} /\ cyc.ok_before # {} /\ cyc.cooldown_elapsed)
    => cyc.recovered

\* C8: a cycle in which all seven block reads came back empty is counted
\* as a cycle-level failure: the counter is one more than it was.
C8_AllReadsFailedCounts ==
    (pc = "idle" /\ cyc.polled_ok = {} /\ cyc.polled_failed = Blocks)
    => rm.consecutive_failures = cyc.after_recovery + 1

\* C9: a recovery attempt starts at least 60 seconds after the one before
\* it, whichever trigger fired, and records the cycle's time as the time
\* of the last recovery.
C9_RecoveryCooldown ==
    cyc.recovered =>
        /\ rm.last_recovery = now
        /\ \/ cyc.last_recovery_before = NoTime
           \/ now - cyc.last_recovery_before >= RECOVERY_COOLDOWN_SECONDS

\* The second recovery attempt of a run.
C9_Witness ==
    /\ cyc.recovered
    /\ cyc.last_recovery_before # NoTime
    /\ rm.recovery_count = 2

(***************************************************************************)
(* The command-interval gate under two executor threads.                   *)
(***************************************************************************)
NextGate ==
    \/ \E t \in Threads : EnforceCommandInterval(t)
    \/ \E t \in Threads : SleepReturns(t)
    \/ \E t \in Threads : SendCommand(t)
    \/ \E d \in Ticks : Tick(d)

SpecGate == Init /\ [][NextGate]_vars

\* C10: any two commands sent on the one Transport Client are at least
\* 300 ms apart, however the threads' reads and writes interleave.
C10_CommandsSpaced ==
    \A i \in 1..(Len(sent) - 1) : sent[i + 1] - sent[i] >= PROTOCOL_COMMAND_INTERVAL

(***************************************************************************)
(* The Transport Client under one caller and close().  The threads keep    *)
(* running: a step that can be taken is taken.                             *)
(***************************************************************************)
NextClient ==
    \/ BeginOperation
    \/ RetryLoopCheck
    \/ OperationEntryCheck
    \/ \E connected \in BOOLEAN : EnsureConnected(connected)
    \/ ValidateClient
    \/ \E answer \in IOAnswers : PerformIO(answer)
    \/ CloseBegin
    \/ CloseFinish

SpecClient ==
    Init /\ [][NextClient]_vars /\ WF_vars(OperationStep) /\ WF_vars(CloseFinish)

\* The errors the retry loop may retry: transport errors, and Modbus
\* exceptions whose text names a timeout, connection, unreachable, refused
\* or reset.
C11_TransientErrors ==
    { e \in Exceptions :
        \/ e.cls \in {"ConnectionException", "TimeoutError", "OSError"}
        \/ e.cls = "ModbusException" /\ e.keyword }

C11_RetryDiscipline ==
    /\ op.attempts <= MAX_RETRIES
    /\ op.attempts <= Len(op.sleeps) + 1
    /\ \A i \in 1..Len(op.sleeps) :
          /\ op.errors[i] \in C11_TransientErrors
          /\ op.sleeps[i] = Min(INITIAL_RETRY_DELAY * 2^(i - 1), MAX_RETRY_DELAY)
          /\ op.sleeps[i] <= MAX_RETRY_DELAY
    /\ \A i \in 1..Len(op.errors) :
          op.errors[i] \notin C11_TransientErrors =>
              /\ i = Len(op.errors)
              /\ op.pc = "idle"
              /\ op.result = "failed"
    /\ op.result = "ok" => op.pc = "idle"
    /\ (op.pc = "idle" /\ ops > 0) => op.result \in {"ok", "failed"}
    /\ op.pc # "idle" => op.result = "none"

\* C11: an operation makes at most 3 attempts; each further attempt follows
\* a transient error and a backoff of 0.5 s doubled each time and capped at
\* 5 s; a non-transient error ends it with failure at once; and every
\* operation ends, with its first success or with a failure.
C11_BoundedRetry ==
    /\ []C11_RetryDiscipline
    /\ (op.pc # "idle") ~> (op.pc = "idle")

\* Three attempts, each ended by a transient error, with backoffs of 0.5 s
\* and 1 s, and the operation failed.
C11_Witness ==
    /\ op.pc = "idle"
    /\ op.result = "failed"
    /\ op.attempts = MAX_RETRIES
    /\ op.sleeps = << 500, 1000 >>
    /\ closes = 0

\* C12: once close() has returned and the operations that were in flight
\* have finished, the client holds no open connection.
C12_CloseLeavesNoConnection ==
    (closes >= 1 /\ close_pc = "idle" /\ op.pc = "idle" /\ ~late_start)
    => client # "open"

\* C14: right after set_optimistic_value(key, v) returns, and before any
\* further cycle, the data the coordinator publishes maps key to v.
C14_PatchVisibleAtOnce ==
    [][patches' = patches + 1
         => \A k \in OptimisticKeys :
               (Get(lastKnownData, k, PyNone) # Get(lastKnownData', k, PyNone))
               => /\ result'.kind = "data"
                  /\ Get(result'.data, k, PyNone) = lastKnownData'[k]]_vars

\* C15: a cycle that starts after a patch and decodes the dispatch block
\* leaves no optimistic value behind: every field the write paths patched
\* (dispatch_start, dispatch_power, dispatch_mode) then holds a value decoded
\* from the device.
C15_PollReplacesOptimistic ==
    [][(pc = "finish" /\ pc' = "idle" /\ ~fetched.raised /\ "dispatch" \in cyc.polled_ok)
         => \A k \in patchedSince \cap OptimisticKeys :
               (Get(cyc.data_at_fetch, k, PyNone) = lastKnownData[k])
               => /\ k \in DOMAIN decoded'
                  /\ lastKnownData'[k] = decoded'[k]]_vars

(***************************************************************************)
(* Dispatch commands between refresh cycles: each control path with the    *)
(* inputs the entities hold by default, the write answered at once, after  *)
(* timeouts, or never.                                                     *)
(***************************************************************************)
MaxDispatchCycles == 2
MaxDispatchCommands == 1

\* Defaults of safe_get_entity_float: 3.0 kW, 100 %, 120 minutes.
DispatchCommands == { Cmd(path, 3000, 100, 120) : path \in Paths }

NextDispatch ==
    \/ \E gap \in Gaps, resp \in PatchResponses, outcome \in PatchOutcomes :
          StartCycle(gap, resp, outcome, MaxDispatchCycles)
    \/ FinishCycle
    \/ \E cmd \in DispatchCommands, answers \in AnswerSequences, packing \in Packings :
          DispatchCommand(cmd, answers, packing, MaxDispatchCommands)

SpecDispatch == Init /\ [][NextDispatch]_vars

\* C13: when write_registers reports failure, no optimistic value reaches
\* the snapshot or the published data.
C13_FailedWriteLeavesSnapshot ==
    [][(commands' = commands + 1 /\ written' = "failed")
         => (lastKnownData' = lastKnownData /\ result' = result)]_vars

(***************************************************************************)
(* One command per behaviour, drawn at the start from the inputs the       *)
(* number entities and the configuration allow: power from MIN_POWER to    *)
(* MAX_POWER_LIMIT (0.5 kW to 100 kW), SOC 0..100 %.  The force-charge and *)
(* force-discharge switches read number entities that number.py does not   *)
(* create, so they always get the defaults of safe_get_entity_float.       *)
(***************************************************************************)
PowerWatts == {500, 3000, 5000, 32000, 33535, 33536, 100000}
SocPercents == MIN_SOC_PERCENT..MAX_SOC_PERCENT

FrameCommands ==
    { Cmd(path, w, p, 120) : path \in SelectPaths \cup DynamicPaths,
                             w \in PowerWatts, p \in SocPercents }
    \cup { Cmd("switch_charge_on", 3000, 100, 120), Cmd("switch_discharge_on", 3000, 20, 120),
           Cmd("select_no_battery_charge", 0, 0, 120) }
    \cup { Cmd(path, 0, 0, 0) : path \in ResetPaths }

FramesInit ==
    /\ command \in FrameCommands
    /\ frame = << >>
    /\ written = "none"
    /\ device = DISPATCH_RESET_VALUES
    /\ readback = EmptyDict
    /\ commands = 0

InitFrames == CoordInit /\ GateInit /\ ClientInit /\ FramesInit /\ DerivedInit /\ DailyInit /\ ExportInit /\ PollInit

NextFrames ==
    \/ BuildValues
    \/ \E answers \in AnswerSequences, packing \in Packings : WriteRegisters(answers, packing)
    \/ ReadDispatchBlock

SpecFrames == InitFrames /\ [][NextFrames]_vars

\* C16: for a charge or discharge of w watts the frame's active-power slot
\* is 32000 + w, a value the 16-bit register holds, and the frame read back
\* from the device decodes to dispatch power w with the start flag set.
C16_PowerRoundTrip ==
    (command.path \in PowerPaths /\ frame # << >>)
    => /\ frame[3] = MODBUS_OFFSET + SignedPower(command)
       /\ Encodable(frame)
       /\ (written = "ok" /\ readback # EmptyDict)
          => readback = [dispatch_start |-> 1, dispatch_power |-> SignedPower(command)]

\* C17: on every control path the frame's SOC slot is p * 2.55 rounded to
\* the nearest integer (halves up) and clamped to 0..255.
C17_SocSlot ==
    (command.path \in PowerPaths /\ frame # << >>)
    => frame[7] = Max(0, Min(255, (command.soc * 255 + 50) \div 100))

\* C18: every frame handed to write_registers(0x0880, ..) has 11 registers,
\* and the reset frame has start 0, power slot 32000 and SOC 0.
C18_ElevenRegisters ==
    frame # << >>
    => /\ Len(frame) = 11
       /\ command.path \in ResetPaths
          => (frame[1] = 0 /\ frame[3] = MODBUS_OFFSET /\ frame[7] = 0)

\* C19: a cycle reports house load as a number only if each of pv, battery
\* and grid was decoded in the cycle or was not due and has cached values.
C19_HouseLoadNeedsAllThree ==
    (pc = "finish" /\ ~fetched.raised /\ fetched.data["total_house_load"] # PyNone)
    => \A b \in critical_blocks :
          \/ b \in cyc.polled_ok
          \/ b \notin cyc.polled_failed /\ get_cached_values(pm, b) # EmptyDict

(***************************************************************************)
(* _calculate_derived_values applied to the data of one cycle: each of pv, *)
(* battery and grid either has its power in data (decoded now or cached)   *)
(* or has never been decoded, and successful_reads marks a subset of the   *)
(* blocks that have.  Powers in watts, grid negative when exporting,       *)
(* battery positive when discharging.                                      *)
(***************************************************************************)
PvPowers == {0, 6000}
BatteryPowers == {-3000, 0, 5000}
GridPowers == {-7000, -5000, 0, 4000}

PowerData(have, pv, battery, grid) ==
    LET keys == { k \in {"pv_ac_power_total", "battery_power", "grid_power_total"} :
                    \/ k = "pv_ac_power_total" /\ "pv" \in have
                    \/ k = "battery_power" /\ "battery" \in have
                    \/ k = "grid_power_total" /\ "grid" \in have }
    IN  [k \in keys |-> IF k = "pv_ac_power_total" THEN pv
                        ELSE IF k = "battery_power" THEN battery ELSE grid]

FetchStates ==
    { [data |-> PowerData(have, pv, battery, grid), reads |-> reads] :
        have \in SUBSET critical_blocks, reads \in SUBSET critical_blocks,
        pv \in PvPowers, battery \in BatteryPowers, grid \in GridPowers }

DerivedInputsInit ==
    /\ fetch_state \in { f \in FetchStates :
                           \A b \in f.reads : BlockKeys(b) \cap DOMAIN f.data # {} }
    /\ derived = EmptyDict

CalculateDerivedValues ==
    /\ derived = EmptyDict
    /\ derived' = calculate_derived_values(fetch_state.data, fetch_state.reads,
                                           DailyEnergyInit, 0).data
    /\ UNCHANGED fetch_state
    /\ UNCHANGED outsideDerived

InitDerived == CoordInit /\ GateInit /\ ClientInit /\ DispatchInit /\ DerivedInputsInit /\ DailyInit /\ ExportInit /\ PollInit

NextDerived == CalculateDerivedValues

SpecDerived == InitDerived /\ [][NextDerived]_vars

\* C20: a computed house load is pv_power_total + battery_power +
\* grid_power_total, negative when that sum is, and excess_grid_export is its
\* absolute value when it is negative and 0 otherwise: grid -7000, battery
\* 5000, pv 0 give -2000 and 2000; grid -5000, battery 0, pv 6000 give 1000
\* and 0.
C20_HouseLoadUnclamped ==
    (derived # EmptyDict /\ derived["total_house_load"] # PyNone)
    => LET sum == derived["pv_power_total"] + Get(fetch_state.data, "battery_power", 0)
                    + Get(fetch_state.data, "grid_power_total", 0)
       IN  /\ derived["total_house_load"] = sum
           /\ derived["excess_grid_export"] = IF sum < 0 THEN 0 - sum ELSE 0
           /\ fetch_state.data = PowerData(critical_blocks, 0, 5000, -7000)
              => (derived["total_house_load"] = -2000 /\ derived["excess_grid_export"] = 2000)
           /\ fetch_state.data = PowerData(critical_blocks, 6000, 0, -5000)
              => (derived["total_house_load"] = 1000 /\ derived["excess_grid_export"] = 0)

\* All three blocks read; grid -7000, battery 5000, pv 0: the load is -2000
\* and the excess export 2000.
C20_Witness ==
    /\ fetch_state = [data |-> PowerData(critical_blocks, 0, 5000, -7000),
                      reads |-> critical_blocks]
    /\ derived # EmptyDict
    /\ derived["total_house_load"] = -2000
    /\ derived["excess_grid_export"] = 2000

(***************************************************************************)
(* The daily-energy calculator from its empty state: each call comes with  *)
(* a lifetime total, larger or smaller than the one before, on the same    *)
(* date or after some days.  _calculate_derived_values calls it only with  *)
(* a positive total.                                                       *)
(***************************************************************************)
MaxDailyCalls == 4
MaxTotalEnergy == 3
MaxDaysPassed == 1

TotalEnergies == 1..MaxTotalEnergy

CalculateDailyPvEnergy(total_energy, days) ==
    /\ daily_calls < MaxDailyCalls
    /\ daily_calls' = daily_calls + 1
    /\ today' = today + days
    /\ \E r \in { calculate_daily_pv_energy(tracker, total_energy,
                                            (today + days) * SecondsPerDay) } :
          /\ tracker' = r.de
          /\ daily_call' = [ total |-> total_energy, date |-> today + days,
                             before |-> tracker, value |-> r.value,
                             changed |-> r.changed ]
    /\ UNCHANGED energy
    /\ UNCHANGED persist
    /\ UNCHANGED outsideDaily

NextDaily ==
    \E total_energy \in TotalEnergies, days \in 0..MaxDaysPassed :
        CalculateDailyPvEnergy(total_energy, days)

SpecDaily == Init /\ [][NextDaily]_vars

\* C21: the daily value is never negative, and on an unchanged date with a
\* total not below the baseline it is the total minus the baseline.
C21_DailyValueNonNegative ==
    daily_calls > 0
    => /\ daily_call.value >= 0
       /\ (/\ daily_call.before.last_reset_date = daily_call.date
           /\ daily_call.before.midnight # PyNone
           /\ daily_call.total >= daily_call.before.midnight)
          => /\ daily_call.value = daily_call.total - daily_call.before.midnight
             /\ tracker.midnight = daily_call.before.midnight

\* The total grew by 2 since midnight on an unchanged date.
C21_Witness ==
    /\ daily_calls > 1
    /\ daily_call.before.last_reset_date = daily_call.date
    /\ daily_call.total = daily_call.before.midnight + 2
    /\ daily_call.value = 2

\* C22: the first call on a later date than the last reset date returns 0,
\* makes the total the baseline, sets the date and clears the preserved
\* value, whatever the old baseline and the total.
C22_DayRollover ==
    (/\ daily_calls > 0
     /\ daily_call.before.last_reset_date # NoTime
     /\ daily_call.date > daily_call.before.last_reset_date)
    => /\ daily_call.value = 0
       /\ tracker.midnight = daily_call.total
       /\ tracker.last_reset_date = daily_call.date
       /\ tracker.preserved = PyNone

\* A new day whose first total is below yesterday's baseline, with a
\* preserved value from yesterday.
C22_Witness ==
    /\ daily_calls > 0
    /\ daily_call.before.last_reset_date # NoTime
    /\ daily_call.date > daily_call.before.last_reset_date
    /\ daily_call.total < daily_call.before.midnight
    /\ daily_call.before.preserved > 0
    /\ daily_call.value = 0

\* C23: on an unchanged date with the total below the baseline, a preserved
\* positive value is returned and nothing changes; without one the baseline
\* becomes the total and 0 is returned.
C23_RollbackKeepsPreserved ==
    (/\ daily_calls > 0
     /\ daily_call.before.last_reset_date = daily_call.date
     /\ daily_call.before.midnight # PyNone
     /\ daily_call.total < daily_call.before.midnight)
    => IF daily_call.before.preserved # PyNone /\ daily_call.before.preserved > 0
       THEN /\ daily_call.value = daily_call.before.preserved
            /\ tracker = daily_call.before
       ELSE /\ daily_call.value = 0
            /\ tracker = [daily_call.before EXCEPT !.midnight = daily_call.total]

\* The total fell below the baseline while a positive value was preserved.
C23_Witness ==
    /\ daily_calls > 0
    /\ daily_call.before.last_reset_date = daily_call.date
    /\ daily_call.before.midnight # PyNone
    /\ daily_call.total < daily_call.before.midnight
    /\ daily_call.before.preserved > 0
    /\ daily_call.value = daily_call.before.preserved

(***************************************************************************)
(* The Dynamic Export controller.  Powers are in watts (the code computes  *)
(* in kW and converts with int(power_kw * 1000), exact for the loads and   *)
(* PV powers used here); times are in seconds.                             *)
(***************************************************************************)
DYNAMIC_EXPORT_UPDATE_INTERVAL == 10
DYNAMIC_EXPORT_DEBOUNCE_THRESHOLD == 300
REFRESH_CEILING == 60
TOLERANCE == 500
DEFAULT_DYNAMIC_EXPORT_TARGET == 1000
DEFAULT_DISCHARGE_SOC == 10

\* A duration check that never fires, against which the properties are tested.
DurationExpiredNever(d, at) == FALSE

\* _control_loop: elapsed >= self._duration_minutes
DurationExpired(d, at) ==
    /\ d.start_time # NoTime
    /\ d.duration_minutes # 0
    /\ at - d.start_time >= d.duration_minutes * 60

\* DynamicExportManager.start
start(d, duration_minutes, at) ==
    IF d.running THEN d
    ELSE [ running |-> TRUE, task |-> "alive", last_update_time |-> NoTime,
           last_commanded_power |-> 0, start_time |-> at,
           duration_minutes |-> duration_minutes ]

\* DynamicExportManager.stop: the flag is cleared, the task cancelled and
\* awaited, the reference dropped.  Nothing is written.
stop(d) ==
    IF ~d.running THEN d
    ELSE [d EXCEPT !.running = FALSE, !.task = "none"]

\* Whether stop() calls self._task.cancel().
StopCancelsTask(d) == d.running /\ d.task # "none"

Abs(x) == IF x < 0 THEN 0 - x ELSE x

time_since_update(d, at) ==
    IF d.last_update_time # NoTime THEN at - d.last_update_time ELSE PyNone

should_update(power_change, since) ==
    \/ power_change >= DYNAMIC_EXPORT_DEBOUNCE_THRESHOLD
    \/ since = PyNone
    \/ since >= REFRESH_CEILING

\* _update_battery_power up to the point where it writes: what it decided
\* ("unavailable", "skip", "discharge", "charge" or "stop"), the values it
\* hands to write_registers and the fields afterwards (before any stop()).
update_battery_power(d, lim, load, pv, at) ==
    LET pv_production == IF pv = PyNone THEN 0 ELSE pv
        needed == DEFAULT_DYNAMIC_EXPORT_TARGET + load - pv_production
        change == Abs(needed - d.last_commanded_power)
        since == time_since_update(d, at)
        discharge_power == Min(needed, lim.max_discharge)
        charge_power == Min(Abs(needed), lim.max_charge)
        base == [ needed |-> needed, change |-> change, since |-> since,
                  values |-> << >>, d |-> d ]
    IN  IF load = PyNone
        THEN [ base EXCEPT !.needed = 0, !.change = 0 ] @@ [ decision |-> "unavailable" ]
        ELSE IF ~should_update(change, since)
        THEN base @@ [ decision |-> "skip" ]
        ELSE IF needed > TOLERANCE
        THEN [ base EXCEPT
                 !.values = send_discharge_command(discharge_power, DEFAULT_DISCHARGE_SOC),
                 !.d = [d EXCEPT !.last_commanded_power = discharge_power,
                                 !.last_update_time = at] ]
             @@ [ decision |-> "discharge" ]
        ELSE IF needed < 0 - TOLERANCE
        THEN [ base EXCEPT
                 !.values = send_charge_command(charge_power, 100),
                 !.d = [d EXCEPT !.last_commanded_power = 0 - charge_power,
                                 !.last_update_time = at] ]
             @@ [ decision |-> "charge" ]
        ELSE [ base EXCEPT !.values = DISPATCH_RESET_VALUES, !.d = stop(d) ]
             @@ [ decision |-> "stop" ]

MaxExportTime == 90
DurationMinutes == {1, 2}
HouseLoads == {PyNone, 200, 300, 8000, 40000}
PvProductions == {0, 9000}
MaxDischargePowers == {DEFAULT_MAX_DISCHARGE_POWER, MAX_POWER_LIMIT}
ExportAnswers ==
    { [i \in 1..MAX_RETRIES |-> NoError],
      [i \in 1..MAX_RETRIES |-> [cls |-> "TimeoutError", keyword |-> FALSE]] }

\* The registers that can reach the device when write_registers is called
\* with these values: none when every attempt times out or the frame is
\* refused.
WriteOutcomes(values) ==
    IF values = << >> THEN { << >> }
    ELSE { write_registers(values, answers, packing).registers :
             answers \in ExportAnswers, packing \in Packings }

ExportLive == export_event.kind # "unload" /\ exportClock <= MaxExportTime

\* select._start_dynamic_export: the manager's start() with the duration
\* read from the number entity.
StartDynamicExport(duration_minutes) ==
    /\ ExportLive
    /\ dem' = start(dem, duration_minutes, exportClock)
    /\ export_event' = [ NoExportEvent EXCEPT !.kind = "start", !.was_running = dem.running,
                                              !.time = exportClock ]
    /\ UNCHANGED << limits, exportClock >>
    /\ UNCHANGED aio
    /\ UNCHANGED outsideExport

\* One iteration of _control_loop: the duration check, then either
\* _stop_dispatch and the end of the loop, or _update_battery_power and
\* the sleep.
ControlLoop(load, pv) ==
    /\ ExportLive
    /\ dem.task = "alive"
    /\ dem.running
    /\ IF DurationExpired(dem, exportClock)
       THEN /\ dem' = stop(dem)
            /\ \E registers \in WriteOutcomes(DISPATCH_RESET_VALUES) :
                 export_event' =
                   [ NoExportEvent EXCEPT
                       !.kind = "tick", !.was_running = TRUE, !.time = exportClock,
                       !.expired = TRUE, !.values = DISPATCH_RESET_VALUES,
                       !.registers = registers,
                       !.reset = TRUE, !.cancelled = StopCancelsTask(dem) ]
            /\ UNCHANGED exportClock
       ELSE \E u \in { update_battery_power(dem, limits, load, pv, exportClock) } :
            /\ dem' = u.d
            /\ \E registers \in WriteOutcomes(u.values) :
                 export_event' =
                   [ NoExportEvent EXCEPT
                       !.kind = "tick", !.was_running = TRUE, !.time = exportClock,
                       !.load = load, !.needed = u.needed, !.change = u.change,
                       !.since = u.since,
                       !.skipped = (u.decision \in {"unavailable", "skip"}),
                       !.values = u.values,
                       !.registers = registers,
                       !.reset = (u.decision = "stop"),
                       !.cancelled = (u.decision = "stop" /\ StopCancelsTask(dem)) ]
            /\ exportClock' = exportClock + DYNAMIC_EXPORT_UPDATE_INTERVAL
    /\ UNCHANGED limits
    /\ UNCHANGED aio
    /\ UNCHANGED outsideExport

\* select._stop_dispatch ("Normal"): the manager's stop(), then the reset
\* frame.
SelectNormal ==
    /\ ExportLive
    /\ dem' = stop(dem)
    /\ \E registers \in WriteOutcomes(DISPATCH_RESET_VALUES) :
         export_event' =
           [ NoExportEvent EXCEPT
               !.kind = "select_normal", !.was_running = dem.running, !.time = exportClock,
               !.values = DISPATCH_RESET_VALUES,
               !.registers = registers,
               !.reset = TRUE, !.cancelled = StopCancelsTask(dem) ]
    /\ UNCHANGED << limits, exportClock >>
    /\ UNCHANGED aio
    /\ UNCHANGED outsideExport

\* async_unload_entry: the manager's stop(), then the client is closed.
UnloadEntry ==
    /\ ExportLive
    /\ dem' = stop(dem)
    /\ export_event' =
         [ NoExportEvent EXCEPT
             !.kind = "unload", !.was_running = dem.running, !.time = exportClock,
             !.cancelled = StopCancelsTask(dem) ]
    /\ UNCHANGED << limits, exportClock >>
    /\ UNCHANGED aio
    /\ UNCHANGED outsideExport

\* The periodic task is cancelled from outside (the event loop shutting
\* down): _control_loop logs and re-raises, the running flag stays set.
CancelTask ==
    /\ ExportLive
    /\ dem.task = "alive"
    /\ dem' = [dem EXCEPT !.task = "cancelled"]
    /\ export_event' =
         [ NoExportEvent EXCEPT
             !.kind = "cancel", !.was_running = dem.running, !.time = exportClock,
             !.cancelled = TRUE ]
    /\ UNCHANGED << limits, exportClock >>
    /\ UNCHANGED aio
    /\ UNCHANGED outsideExport

InitExport ==
    /\ CoordInit /\ GateInit /\ ClientInit /\ DispatchInit /\ DerivedInit /\ DailyInit
    /\ PollInit
    /\ aio = AioInit
    /\ dem = DynamicExportManagerInit
    /\ limits \in { [ max_charge |-> DEFAULT_MAX_CHARGE_POWER, max_discharge |-> m ] :
                    m \in MaxDischargePowers }
    /\ exportClock = 0
    /\ export_event = NoExportEvent

NextExport ==
    \/ \E duration_minutes \in DurationMinutes : StartDynamicExport(duration_minutes)
    \/ \E load \in HouseLoads, pv \in PvProductions : ControlLoop(load, pv)
    \/ SelectNormal
    \/ UnloadEntry
    \/ CancelTask

SpecExport == InitExport /\ [][NextExport]_vars

\* C24: whenever a caller's stop (the select's Normal option, the unload
\* of the integration) takes the controller from Running to Stopped, the
\* reset frame is handed to write_registers and the periodic task is
\* cancelled.
C24_StopWritesReset ==
    (/\ export_event.kind \in {"select_normal", "unload"}
     /\ export_event.was_running
     /\ ~dem.running)
    => /\ export_event.reset
       /\ export_event.values = DISPATCH_RESET_VALUES
       /\ export_event.cancelled

\* C25: a loop iteration that begins when the time since start has reached
\* the duration hands the reset frame, and no other, to write_registers and
\* leaves the controller stopped with no task.
C25_ExpiryStops ==
    (/\ export_event.kind = "tick"
     /\ export_event.time - dem.start_time >= dem.duration_minutes * 60)
    => /\ export_event.reset
       /\ export_event.values = DISPATCH_RESET_VALUES
       /\ ~dem.running
       /\ dem.task = "none"

\* The iteration 60 s after a start with a duration of one minute.
C25_Witness ==
    /\ export_event.kind = "tick"
    /\ export_event.expired
    /\ dem.duration_minutes = 1
    /\ export_event.time - dem.start_time = 60
    /\ ~dem.running

\* C26: an iteration sends nothing only if the change is below the debounce
\* threshold and less than 60 s have passed since the last command, and
\* while the controller runs the last command is never older than 60 s
\* plus one interval.
C26_RefreshCeiling ==
    /\ (export_event.kind = "tick" /\ export_event.skipped)
       => /\ export_event.change < DYNAMIC_EXPORT_DEBOUNCE_THRESHOLD
          /\ export_event.since # PyNone
          /\ export_event.since < REFRESH_CEILING
    /\ (dem.running /\ dem.task = "alive" /\ dem.last_update_time # NoTime)
       => exportClock - dem.last_update_time
            <= REFRESH_CEILING + DYNAMIC_EXPORT_UPDATE_INTERVAL

C27_ValuesWithinLimits ==
    (export_event.kind = "tick" /\ export_event.values # << >> /\ ~export_event.reset)
    => /\ dem.last_commanded_power <= limits.max_discharge
       /\ 0 - dem.last_commanded_power <= limits.max_charge
       /\ export_event.values[3] = MODBUS_OFFSET + dem.last_commanded_power

(***************************************************************************)
(* The polling intervals under a configured minimum and maximum: each      *)
(* attempt reads one block; a read that succeeds goes through              *)
(* update_after_poll, a failed one through record_block_failure, which     *)
(* leaves the interval alone.                                              *)
(***************************************************************************)
MaxPollAttempts == 5
ConfiguredMinimums == {5, 10, 60}
ConfiguredMaximums == {20, 300}
PolledBlocks == {"battery", "grid"}

\* get_block_interval
get_block_interval(intervals, b) == Get(intervals, b, default_interval)

PollAttempt(b, ok, changed) ==
    /\ poll_attempts < MaxPollAttempts
    /\ poll_attempts' = poll_attempts + 1
    /\ poll_attempt' = [ block |-> b, ok |-> ok, changed |-> ok /\ changed ]
    /\ poll_intervals' =
         IF ok
         THEN DictSet(poll_intervals, b,
                      new_interval(get_block_interval(poll_intervals, b), changed,
                                   poll_config.min_interval, poll_config.max_interval))
         ELSE poll_intervals
    /\ UNCHANGED poll_config
    /\ UNCHANGED outsidePoll

InitIntervals ==
    /\ CoordInit /\ GateInit /\ ClientInit /\ DispatchInit /\ DerivedInit /\ DailyInit
    /\ ExportInit
    /\ poll_config \in { PollConfig(lo, hi) :
                           lo \in ConfiguredMinimums, hi \in ConfiguredMaximums }
    /\ poll_intervals = EmptyDict
    /\ poll_attempt = NoPollAttempt
    /\ poll_attempts = 0

NextIntervals ==
    \E b \in PolledBlocks, ok \in BOOLEAN, changed \in BOOLEAN : PollAttempt(b, ok, changed)

SpecIntervals == InitIntervals /\ [][NextIntervals]_vars

\* C28: after every poll attempt the block's interval lies between the
\* minimum (never below 10 s) and the maximum, whatever pair is configured.
C28_IntervalWithinBounds ==
    /\ poll_config.min_interval >= 10000
    /\ poll_attempts > 0
       => LET interval == get_block_interval(poll_intervals, poll_attempt.block)
          IN  /\ poll_config.min_interval <= interval
              /\ interval <= poll_config.max_interval

\* The same for the pairs that have the 30 s starting interval well inside:
\* a minimum of at most 27 s and a maximum of at least 33 s.
C28_IntervalWithinBoundsAroundDefault ==
    (/\ poll_attempts > 0
     /\ poll_config.min_interval * 10 <= default_interval * 9
     /\ poll_config.max_interval * 10 >= default_interval * 11)
    => LET interval == get_block_interval(poll_intervals, poll_attempt.block)
       IN  /\ poll_config.min_interval <= interval
           /\ interval <= poll_config.max_interval

\* C29: after a cycle in which a due block's read failed, that block's
\* last-poll time is the cycle's time, so that the block is not due again
\* before its interval has passed.
C29_FailedBlockBacksOff ==
    (pc = "finish" /\ ~cyc.raised)
    => \A b \in cyc.polled_failed :
          /\ Get(pm.block_last_poll, b, NoTime) = now
          /\ ~should_poll_block(pm, b, now)

\* C30: a cycle that starts with the last data change at least the
\* staleness threshold ago and no cooldown pending attempts recovery, and
\* a cycle is recorded as a data change exactly when some block polled in
\* it decoded to values different from its cache.
C30_StaleDataRecovers ==
    /\ (cyc.stale_at_start /\ cyc.cooldown_elapsed) => cyc.recovered
    /\ (pc = "idle" /\ cycles > 0)
       => (rm.last_data_change = now <=> cyc.block_changed)

\* The same with the data change taken over the cycles whose job did not
\* raise.
C30_StaleDataRecoversUnlessRaised ==
    /\ (cyc.stale_at_start /\ cyc.cooldown_elapsed) => cyc.recovered
    /\ (pc = "idle" /\ cycles > 0 /\ ~cyc.raised)
       => (rm.last_data_change = now <=> cyc.block_changed)

\* C31: a cycle in which a due block's read returns nothing or too few
\* registers does not raise: the block is counted as failed, the other
\* blocks are decoded and the job's data is merged into the snapshot.
C31_ShortReadIsBlockFailure ==
    /\ (pc = "finish" /\ cyc.polled_failed # {} /\ cyc.short_reads = {})
       => /\ ~cyc.raised
          /\ \A b \in cyc.polled_failed : b \in cyc.tripped \/ get_block_failures(pm, b) > 0
    /\ (pc = "finish" /\ cyc.short_reads # {})
       => /\ ~cyc.raised
          /\ cyc.short_reads \subseteq cyc.polled_failed
    /\ (pc = "idle" /\ cyc.short_reads # {})
       => /\ result.kind = "data"
          /\ \A k \in DecodedKeys : lastKnownData[k] = decoded[k]

\* The part about a read that returns no registers at all.
C31_EmptyReadIsBlockFailure ==
    (pc = "finish" /\ cyc.polled_failed # {} /\ cyc.short_reads = {})
    => /\ ~cyc.raised
       /\ \A b \in cyc.polled_failed : b \in cyc.tripped \/ get_block_failures(pm, b) > 0

\* C32: when a control path's write of a dispatch frame succeeds, the
\* snapshot has, as soon as the handler is done, the frame's start flag,
\* the power the frame's slot encodes (0 for a slot left at raw 0) and a
\* dispatch mode (the frame's, or the internal Dynamic Export mode).
C32_WriteIsPatched ==
    [][(commands' = commands + 1 /\ written' = "ok" /\ Encodable(frame'))
         => /\ Get(lastKnownData', "dispatch_start", PyNone) = frame'[1]
            /\ \/ Get(lastKnownData', "dispatch_power", PyNone)
                    = parse_dispatch_registers(frame').dispatch_power
               \/ /\ to_unsigned_32(frame'[2], frame'[3]) = 0
                  /\ Get(lastKnownData', "dispatch_power", PyNone) = 0
            /\ Get(lastKnownData', "dispatch_mode", PyNone)
                 \in {frame'[6], DISPATCH_MODE_DYNAMIC_EXPORT}]_vars

\* The same for the paths of the dispatch-mode select and of the Dynamic
\* Export controller alone.
C32_SelectWriteIsPatched ==
    [][(/\ commands' = commands + 1 /\ written' = "ok" /\ Encodable(frame')
        /\ command'.path \notin SwitchPaths \cup ButtonPaths
                                \cup {"switch_charge_off", "switch_discharge_off"})
         => /\ Get(lastKnownData', "dispatch_start", PyNone) = frame'[1]
            /\ \/ Get(lastKnownData', "dispatch_power", PyNone)
                    = parse_dispatch_registers(frame').dispatch_power
               \/ /\ to_unsigned_32(frame'[2], frame'[3]) = 0
                  /\ Get(lastKnownData', "dispatch_power", PyNone) = 0
            /\ Get(lastKnownData', "dispatch_mode", PyNone)
                 \in {frame'[6], DISPATCH_MODE_DYNAMIC_EXPORT}]_vars

(***************************************************************************)
(* The debounced save of the daily-tracking fields: cycles compute the     *)
(* derived values from the energy counters read, a change schedules        *)
(* _save_persistent_data, a write of the options calls the entry's update  *)
(* listener.                                                               *)
(***************************************************************************)
MaxSaveEnergy == 3
MaxSaveDays == 1
CycleSeconds == {60, 300}

Elapsed(since, secs) ==
    IF since = NoTime THEN NoTime ELSE Min(since + secs, SAVE_DEBOUNCE_INTERVAL)

\* new_options: a field that is None leaves the stored one as it was.
new_options(options, fields) ==
    [ last_reset_date |-> IF fields.last_reset_date # NoTime
                          THEN fields.last_reset_date ELSE options.last_reset_date,
      midnight |-> IF fields.midnight # PyNone THEN fields.midnight ELSE options.midnight,
      last_known_total |-> IF fields.last_known_total # PyNone
                           THEN fields.last_known_total ELSE options.last_known_total,
      preserved |-> IF fields.preserved # PyNone THEN fields.preserved ELSE options.preserved ]

Debounced(p) == p.since_save # NoTime /\ p.since_save < SAVE_DEBOUNCE_INTERVAL

\* _save_persistent_data with the task it creates; async_update_entry calls
\* the listeners when the options changed.
save_persistent_data(p, fields) ==
    IF Debounced(p)
    THEN [p EXCEPT !.dropped = TRUE]
    ELSE [p EXCEPT !.since_save = 0,
                   !.options = new_options(p.options, fields),
                   !.last_gap = p.since_write,
                   !.since_write = 0,
                   !.reload_pending = (new_options(p.options, fields) # p.options),
                   !.dropped = FALSE]

\* update_listener: does the entry reload?  The stored options hold the
\* runtime keys only (the options flow stores its values in the entry's data).
update_listener_reloads(p) == p.listener = "package"

EnergyData(dc, ac) ==
    DictSet(DictSet(EmptyDict, "total_pv_energy", dc), "pv_inverter_energy", ac)

\* One cycle secs seconds after the last one, days later on the calendar, with
\* the energy counters reading dc and ac.
UpdateData(dc, ac, days, secs) ==
    /\ ~persist.reload_pending
    /\ today + days <= MaxSaveDays
    /\ today' = today + days
    /\ \E r \in { calculate_derived_values(EnergyData(dc, ac), {}, tracker,
                                           (today + days) * SecondsPerDay) } :
          /\ tracker' = r.de
          /\ \E p \in { [persist EXCEPT !.since_save = Elapsed(@, secs),
                                        !.since_write = Elapsed(@, secs),
                                        !.odd_cycle = ~@] } :
                persist' = IF r.save THEN save_persistent_data(p, r.de) ELSE p
    /\ UNCHANGED energy
    /\ UNCHANGED << daily_call, daily_calls >>
    /\ UNCHANGED outsideDaily

\* The listener runs after the write; a reload builds a new coordinator,
\* whose __init__ loads the four fields from the options and has no
\* _last_save_time.
UpdateListener ==
    /\ persist.reload_pending
    /\ IF update_listener_reloads(persist)
       THEN /\ tracker' = persist.options
            /\ persist' = [persist EXCEPT !.reload_pending = FALSE, !.since_save = NoTime]
       ELSE /\ persist' = [persist EXCEPT !.reload_pending = FALSE]
            /\ UNCHANGED tracker
    /\ UNCHANGED energy
    /\ UNCHANGED << today, daily_call, daily_calls >>
    /\ UNCHANGED outsideDaily

InitSave ==
    /\ CoordInit /\ GateInit /\ ClientInit /\ DispatchInit /\ DerivedInit
    /\ ExportInit /\ PollInit
    /\ tracker = DailyEnergyInit
    /\ today = 0
    /\ daily_call = NoDailyCall
    /\ daily_calls = 0
    /\ \E listener \in UpdateListeners : persist = PersistInit(listener)
    /\ energy = EnergyInit(1, 1)

NextSave ==
    \/ \E dc \in {0}, ac \in 0..MaxSaveEnergy, days \in 0..1, secs \in CycleSeconds :
          UpdateData(dc, ac, days, secs)
    \/ UpdateListener

SpecSave == InitSave /\ [][NextSave]_vars

\* The cycles go on and the listener runs.
SpecSaveFair == SpecSave /\ WF_vars(NextSave)

\* The fields as a write would store them differ from what is stored.
Unsaved == new_options(persist.options, tracker) # persist.options

\* C33: two writes of the daily-tracking fields to the options are at least
\* the debounce interval apart.
C33_WritesDebounced ==
    persist.last_gap # NoTime => persist.last_gap >= SAVE_DEBOUNCE_INTERVAL

\* Between reloads of the entry the writes are that far apart.
C33_WritesDebouncedWithoutReload ==
    (persist.listener = "root" /\ persist.last_gap # NoTime)
    => persist.last_gap >= SAVE_DEBOUNCE_INTERVAL

\* C34: fields that differ from what is stored are written in the end.
C34_ChangeEventuallySaved == Unsaved ~> ~Unsaved

\* A change saved at once is stored when the cycle is over.
C34_UndebouncedChangeSaved ==
    [][(tracker' # tracker /\ ~persist.reload_pending /\ persist.since_save = NoTime
        /\ persist'.since_write = 0)
         => new_options(persist'.options, tracker') = persist'.options]_vars

(***************************************************************************)
(* The controller's periodic loop as asyncio tasks: start() creates a      *)
(* task, stop() cancels and awaits the manager's task, a write runs on a   *)
(* worker thread that a cancellation of the awaiting task does not stop,   *)
(* and the attempts of _retry_operation are steps of their own.            *)
(***************************************************************************)
LoopDecisions == {"expired", "command", "tolerance", "skip"}
WriteAnswers == {"ok", "timeout"}

Alive(a) == { id \in Loops : a.tasks[id] \notin {"unborn", "ended"} }

\* stop() called by owner o (a loop from _stop_dispatch, or the caller).
\* task.cancel() ends a task of another owner at the await it is in; a
\* loop that cancels and awaits itself gets the CancelledError inside
\* stop(), where it is caught, and goes on.
stop_task(a, o) ==
    IF ~a.running THEN a
    ELSE [a EXCEPT !.running = FALSE,
                   !.task = 0,
                   !.tasks = IF a.task # 0 /\ a.task # o
                             THEN [@ EXCEPT ![a.task] = "ended"] ELSE @]

\* start(): nothing when running, else the flag and a new task.
start_task(a) ==
    IF a.running THEN a
    ELSE LET id == CHOOSE i \in Loops : a.tasks[i] = "unborn" /\ \A k \in Loops : a.tasks[k] = "unborn" => i <= k
         IN  [a EXCEPT !.running = TRUE, !.task = id, !.tasks[id] = "check",
                       !.reset_written = FALSE]

\* select._start_dynamic_export
AioStart ==
    /\ \E i \in Loops : aio.tasks[i] = "unborn"
    /\ aio' = start_task(aio)
    /\ UNCHANGED << dem, limits, exportClock, export_event >>
    /\ UNCHANGED outsideExport

\* A loop comes to the top of its while (at first, or out of its sleep):
\* it ends when _running is False, else it runs one iteration up to the
\* next await.
AioIteration(id, decision) ==
    /\ aio.tasks[id] \in {"check", "sleeping"}
    /\ aio' =
         IF ~aio.running THEN [aio EXCEPT !.tasks[id] = "ended"]
         ELSE LET a == [aio EXCEPT !.stale_tick = @ \/ (aio.task # id)]
              IN  CASE decision = "expired" ->
                         [a EXCEPT !.tasks[id] = "expiring",
                                   !.jobs[id] = [kind |-> "reset", attempt |-> 1]]
                    [] decision = "command" ->
                         [a EXCEPT !.tasks[id] = "writing",
                                   !.jobs[id] = [kind |-> "command", attempt |-> 1]]
                    [] decision = "tolerance" ->
                         [a EXCEPT !.tasks[id] = "stopping",
                                   !.jobs[id] = [kind |-> "reset", attempt |-> 1]]
                    [] decision = "skip" -> [a EXCEPT !.tasks[id] = "sleeping"]
    /\ UNCHANGED << dem, limits, exportClock, export_event >>
    /\ UNCHANGED outsideExport

\* What the owner does when write_registers has returned (True or False).
AfterWrite(a, o, ok) ==
    IF o = Caller THEN [a EXCEPT !.reset_written = (ok /\ ~a.running)]
    ELSE CASE a.tasks[o] = "writing" -> [a EXCEPT !.tasks[o] = "sleeping"]
           [] a.tasks[o] = "stopping" ->
                [stop_task(a, o) EXCEPT !.tasks[o] = "sleeping", !.self_stopped = TRUE]
           [] a.tasks[o] = "expiring" ->
                [stop_task(a, o) EXCEPT !.tasks[o] = "ended", !.self_stopped = TRUE]
           [] OTHER -> a

\* One attempt of a write on its worker thread.
AioWriteAttempt(o, answer) ==
    /\ aio.jobs[o].kind # "none"
    /\ aio' =
         IF answer = "ok"
         THEN AfterWrite([aio EXCEPT
                            !.jobs[o] = NoJob,
                            !.device = [kind |-> aio.jobs[o].kind, owner |-> o],
                            !.late_command = @ \/ (aio.jobs[o].kind = "command"
                                                   /\ aio.reset_written)],
                         o, TRUE)
         ELSE IF aio.jobs[o].attempt < MAX_RETRIES
         THEN [aio EXCEPT !.jobs[o].attempt = @ + 1]
         ELSE AfterWrite([aio EXCEPT !.jobs[o] = NoJob], o, FALSE)
    /\ UNCHANGED << dem, limits, exportClock, export_event >>
    /\ UNCHANGED outsideExport

\* select._stop_dispatch: the manager's stop(), then the reset frame is
\* handed to a worker thread.
AioStop ==
    /\ aio.jobs[Caller].kind = "none"
    /\ aio' = [stop_task(aio, Caller) EXCEPT
                 !.jobs[Caller] = [kind |-> "reset", attempt |-> 1],
                 !.cancelled_mid_write =
                     @ \/ (aio.running /\ aio.task # 0 /\ aio.jobs[aio.task].kind = "command")]
    /\ UNCHANGED << dem, limits, exportClock, export_event >>
    /\ UNCHANGED outsideExport

NextLoops ==
    \/ AioStart
    \/ \E id \in Loops, decision \in LoopDecisions : AioIteration(id, decision)
    \/ \E o \in {Caller} \cup Loops, answer \in WriteAnswers : AioWriteAttempt(o, answer)
    \/ AioStop

SpecLoops == Init /\ [][NextLoops]_vars

\* C35: at most one periodic loop is alive, and only the manager's task
\* runs iterations.
C35_OneLoopAlive ==
    /\ Cardinality(Alive(aio)) <= 1
    /\ ~aio.stale_tick

\* As long as no loop has stopped itself there is one loop at most and
\* only the manager's task runs iterations.
C35_OneLoopUnlessSelfStopped ==
    ~aio.self_stopped => (Cardinality(Alive(aio)) <= 1 /\ ~aio.stale_tick)

\* C36: once the caller's reset frame is written after its stop(), no
\* charge/discharge frame of the stopped controller reaches the device.
C36_NoCommandAfterReset == ~aio.late_command

\* A late frame comes from a write that was on a worker thread when its
\* task was cancelled, or from a loop that went on after stopping itself.
C36_NoCommandAfterCleanStop ==
    aio.late_command => (aio.cancelled_mid_write \/ aio.self_stopped)

(***************************************************************************)
(* Patches while a cycle's job runs, with the dispatch block answering or  *)
(* not.                                                                    *)
(***************************************************************************)
MergeResponses ==
    { [b \in Blocks |-> Ok(MaxReading)] }
    \cup
    { [b \in Blocks |-> IF b = "dispatch" THEN NoneRead ELSE Ok(MaxReading)] }

NextMerge ==
    \/ \E gap \in Gaps, resp \in MergeResponses, outcome \in PatchOutcomes :
          StartCycle(gap, resp, outcome, MaxPatchCycles)
    \/ FinishCycle
    \/ \E key \in OptimisticKeys, value \in OptimisticValues :
          SetOptimisticValue(key, value, MaxPatches)

SpecMerge == Init /\ [][NextMerge]_vars

\* C37: a value patched into the snapshot while the cycle's job runs is
\* still there after the cycle's merge, unless the cycle decoded that field
\* from the device: the copy the job took at its start does not replace it.
C37_PatchSurvivesMerge ==
    [][(pc = "finish" /\ pc' = "idle" /\ ~fetched.raised)
         => \A k \in OptimisticKeys \ DecodedKeys :
               (/\ k \in DOMAIN lastKnownData
                /\ lastKnownData[k] # Get(cyc.data_at_fetch, k, PyNone))
               => lastKnownData'[k] = lastKnownData[k]]_vars

\* A field the job's copy does not hold keeps the value patched in.
C37_PatchOfNewFieldSurvivesMerge ==
    [][(pc = "finish" /\ pc' = "idle" /\ ~fetched.raised)
         => \A k \in OptimisticKeys \ DecodedKeys :
               (k \in DOMAIN lastKnownData /\ k \notin DOMAIN cyc.data_at_fetch)
               => lastKnownData'[k] = lastKnownData[k]]_vars

\* The snapshot holds every value the poller has cached for block b,
\* optimistic patches apart.
SnapshotHoldsCached(b) ==
    \A k \in DOMAIN get_cached_values(pm, b) \ patchedSince :
        /\ k \in DOMAIN lastKnownData
        /\ lastKnownData[k] = get_cached_values(pm, b)[k]

\* C38: at the end of every cycle, the values the poller recorded for the
\* blocks it polled successfully are in the snapshot, also when the cycle
\* failed at a later step; patches apart, the poller's cached values and
\* the snapshot agree.
C38_PollerCacheInSnapshot ==
    pc = "idle" => \A b \in DOMAIN pm.block_last_values : SnapshotHoldsCached(b)

\* At the end of a cycle that did not fail, the values recorded for the
\* blocks polled in it are in the snapshot.
C38_PolledBlocksInSnapshot ==
    (pc = "idle" /\ ~cyc.raised) => \A b \in cyc.polled_ok : SnapshotHoldsCached(b)

(***************************************************************************)
(* The daily energy over cycles in which the inverter block (DC counter)   *)
(* and the pv_inverter_energy block (AC counter) are read or not, on one   *)
(* calendar day.                                                           *)
(***************************************************************************)
MaxEnergyCounter == 3
InitialCounters == 1..2

\* The snapshot's energy keys after the cycle's reads: a block that was
\* not read keeps what the snapshot held.
ReadEnergy(data, dc, ac, dc_read, ac_read) ==
    LET d1 == IF dc_read THEN DictSet(data, "total_pv_energy", dc) ELSE data
    IN  IF ac_read THEN DictSet(d1, "pv_inverter_energy", ac) ELSE d1

EnergyCycle(dc_rise, ac_rise, dc_read, ac_read) ==
    /\ energy.dc + dc_rise <= MaxEnergyCounter
    /\ energy.ac + ac_rise <= MaxEnergyCounter
    /\ \E data \in { ReadEnergy(energy.data, energy.dc + dc_rise, energy.ac + ac_rise,
                                dc_read, ac_read) } :
       \E r \in { calculate_derived_values(data, {}, tracker, today * SecondsPerDay) } :
          /\ tracker' = r.de
          /\ energy' =
               [ energy EXCEPT
                   !.dc = @ + dc_rise,
                   !.ac = @ + ac_rise,
                   !.data = data,
                   !.reported = Get(r.data, "pv_inverter_energy_today", PyNone),
                   !.at_baseline = IF r.de.midnight # tracker.midnight
                                   THEN energy.dc + dc_rise + energy.ac + ac_rise ELSE @,
                   !.both_at_baseline =
                       IF r.de.midnight # tracker.midnight
                       THEN DOMAIN data = {"total_pv_energy", "pv_inverter_energy"}
                       ELSE @ ]
    /\ UNCHANGED << today, daily_call, daily_calls, persist >>
    /\ UNCHANGED outsideDaily

InitEnergy ==
    /\ CoordInit /\ GateInit /\ ClientInit /\ DispatchInit /\ DerivedInit
    /\ ExportInit /\ PollInit
    /\ tracker = DailyEnergyInit
    /\ today = 0
    /\ daily_call = NoDailyCall
    /\ daily_calls = 0
    /\ persist = PersistInit("root")
    /\ \E dc \in InitialCounters, ac \in InitialCounters : energy = EnergyInit(dc, ac)

NextEnergy ==
    \E dc_rise \in 0..1, ac_rise \in 0..1, dc_read \in BOOLEAN, ac_read \in BOOLEAN :
        EnergyCycle(dc_rise, ac_rise, dc_read, ac_read)

SpecEnergy == InitEnergy /\ [][NextEnergy]_vars

\* C39: the daily energy reported is at most what the two lifetime
\* counters together have risen by since the baseline was set.
C39_DailyWithinCounterRise ==
    (energy.reported # PyNone /\ energy.at_baseline # PyNone)
    => energy.reported <= energy.dc + energy.ac - energy.at_baseline

\* It is so when the snapshot held both counters at the baseline.
C39_DailyWithinRiseOfBoth ==
    (energy.reported # PyNone /\ energy.at_baseline # PyNone /\ energy.both_at_baseline)
    => energy.reported <= energy.dc + energy.ac - energy.at_baseline

\* C40: every value of every dispatch frame built from a power within the
\* limits the configuration accepts (up to MAX_POWER_LIMIT) is a 16-bit
\* register value, 0..65535.
C40_FrameValuesAreRegisters ==
    (frame # << >> /\ command.power_watts <= MAX_POWER_LIMIT)
    => \A i \in 1..Len(frame) : 0 <= frame[i] /\ frame[i] <= RegisterMax

\* It is so for powers up to the offset, 32000 W.
C40_FrameValuesUpToOffset ==
    (frame # << >> /\ command.power_watts <= MODBUS_OFFSET)
    => \A i \in 1..Len(frame) : 0 <= frame[i] /\ frame[i] <= RegisterMax

=============================================================================
